---- MODULE Spec2Model ----
(***************************************************************************)
(* Model of the price monitor of taobaoScraper.py: the price-extraction    *)
(* strategy chain (TaobaoScraper.extract_price), the price history         *)
(* (PriceHistoryManager.check_price_change) and the monitoring pass        *)
(* (PriceMonitor.monitor_prices).                                          *)
(*                                                                         *)
(* Texts are sequences of one-character strings.  The non-ASCII glyphs and *)
(* the fixed labels of the source's patterns are single tokens:            *)
(*   "yen"  the half-width yen sign     "YEN"  the full-width yen sign     *)
(*   "NL"   a line break                " "    a blank                     *)
(*   "JIAGE" "CUXIAOJIA" "ZHEHOUJIA" "JIAQIAN"  the price labels           *)
(*   "YUAN" "KUAIQIAN"                          the currency suffixes      *)
(* Python's None is the one-token text None, the message returned when no  *)
(* price is found is the one-token text NotFound.                          *)
(***************************************************************************)
EXTENDS Integers, Sequences, FiniteSets, TLC

VARIABLES
    session,        \* scraper.page: "none", "open", "quit" or "quit-failed"
    loaded,         \* what the browser session shows: the page extract_price reads
    extraction,     \* the outcome of the last extract_price call
    load,           \* the get_page call under way: its attempts and sleeps
    price_history,  \* history_manager.price_history: id -> [name, price, last_update]
    clock,          \* the time of day, in seconds (datetime.now() to the second)
    call,           \* the last check_price_change call: arguments, store before, result
    history_file,   \* price_history.json on disk
    pc,             \* where monitor_prices is
    products,       \* the product list read from the product file
    idx,            \* the 1-based index of the product the loop is at
    price_changes,  \* monitor.price_changes: the ChangeEvents of the pass
    trace,          \* what the pass did: an outcome per product, "save", "push"
    pauses,         \* the sleep that followed each product of the pass
    suggestion,     \* the last calculate_suggested_price call: argument and outcome
    report,         \* the last send_price_report call: arguments and outcome
    record_file,    \* record.csv on disk: its rows, each a record of cells
    log_file,       \* log.csv on disk: the rows appended to it
    results,        \* the result strings extract_product_info collected
    product_file,   \* the product file on disk: its text
    job             \* the last run of getCookie.main: what it selected and did

scraperVars == <<session, loaded, extraction, load>>

\* no get_page call is under way
NoLoad == [state |-> "idle", retries |-> 0, attempts |-> <<>>, log |-> <<>>, ok |-> FALSE]

historyVars == <<price_history, clock, call>>

monitorVars == <<history_file, pc, products, idx, price_changes, trace, pauses>>

reporterVars == <<suggestion, report>>

cookieVars == <<record_file, log_file, job>>

extractorVars == <<results, product_file>>
vars == <<scraperVars, historyVars, monitorVars, reporterVars, cookieVars, extractorVars>>

\* getCookie.main did not run yet
NoJob == [ran |-> FALSE, before |-> <<>>, selected |-> 0, browser |-> FALSE]

None == <<"None">>
NotFound == <<"NOT_FOUND">>

\* no calculate_suggested_price call was made yet
NotSuggested == [made |-> FALSE, input |-> None, raised |-> FALSE, output |-> None]

\* no request was sent to the push endpoint
NoResponse == [kind |-> "none", success |-> FALSE]

\* no send_price_report call was made yet
NotReported ==
    [made |-> FALSE, token |-> FALSE, rendered |-> FALSE, failed |-> FALSE,
     summary |-> <<>>, rows |-> <<>>, posted |-> FALSE, response |-> NoResponse,
     raised |-> FALSE, result |-> FALSE]

(***************************************************************************)
(* Regular-expression primitives (Python's re on the token texts).         *)
(***************************************************************************)
DigitChars == <<"0", "1", "2", "3", "4", "5", "6", "7", "8", "9">>

IsDigit(c) == \E n \in 1..10 : DigitChars[n] = c

IsSpace(c) == c \in {" ", "NL"}

IsYen(c) == c \in {"yen", "YEN"}

DigitVal(c) == (CHOOSE n \in 1..10 : DigitChars[n] = c) - 1

\* \d+ from a digit at position i: the position of the last digit of the run
RECURSIVE DigitsEnd(_, _)
DigitsEnd(s, i) ==
    IF i + 1 <= Len(s) /\ IsDigit(s[i + 1]) THEN DigitsEnd(s, i + 1) ELSE i

\* (?:\.\d+)? after a digit run that ends at position j: where the match ends
FractionEnd(s, j) ==
    IF j + 2 <= Len(s) /\ s[j + 1] = "." /\ IsDigit(s[j + 2])
    THEN DigitsEnd(s, j + 2)
    ELSE j

\* \d+(?:\.\d+)? from a digit at position i: the position where the match ends
DecimalEnd(s, i) == FractionEnd(s, DigitsEnd(s, i))

\* \s* from position i: the first position that is not white space
RECURSIVE SkipSpaces(_, _)
SkipSpaces(s, i) ==
    IF i <= Len(s) /\ IsSpace(s[i]) THEN SkipSpaces(s, i + 1) ELSE i

\* [yen YEN \s]* from position i: the first position outside the class
RECURSIVE SkipYenSpaces(_, _)
SkipYenSpaces(s, i) ==
    IF i <= Len(s) /\ (IsSpace(s[i]) \/ IsYen(s[i]))
    THEN SkipYenSpaces(s, i + 1)
    ELSE i

\* the position of the first digit at or after position i, 0 when there is none
FirstDigitFrom(s, i) ==
    IF \E k \in i..Len(s) : IsDigit(s[k])
    THEN CHOOSE k \in i..Len(s) :
            IsDigit(s[k]) /\ \A j \in i..(k - 1) : ~IsDigit(s[j])
    ELSE 0

\* the decimal that starts at the digit at position p (None when p is 0)
DecimalAt(s, p) == IF p = 0 THEN None ELSE SubSeq(s, p, DecimalEnd(s, p))

\* re.search(r"(\d+(?:\.\d+)?)", s): group 1 of the leftmost match, or None
SearchDecimal(s) == DecimalAt(s, FirstDigitFrom(s, 1))

\* position d holds a digit
DigitAt(s, d) == d <= Len(s) /\ IsDigit(s[d])

\* the least member of a set of positions, 0 for the empty set
Least(S) == IF S = {} THEN 0 ELSE CHOOSE a \in S : \A b \in S : a <= b

\* the digit a match of [yen YEN \s]*\d that starts at position k ends on, 0
\* when k is 0
YenDigit(s, k) == IF k = 0 THEN 0 ELSE SkipYenSpaces(s, k)

\* re.search(r"[yen YEN \s]*(\d+(?:\.\d+)?)", s): group 1 of the leftmost match
SearchYenDecimal(s) ==
    DecimalAt(s, YenDigit(s,
        Least({k \in 1..Len(s) : DigitAt(s, SkipYenSpaces(s, k))})))

\* the whole text is one decimal literal: it matches ^\d+(\.\d+)?$
IsDecimal(s) ==
    /\ s # None
    /\ Len(s) > 0
    /\ IsDigit(s[1])
    /\ DecimalEnd(s, 1) = Len(s)

\* a text with a leading substring matching \d+(\.\d+)?
HasLeadingDecimal(s) == s # None /\ Len(s) > 0 /\ IsDigit(s[1])

(***************************************************************************)
(* The numeric value of a decimal literal, as the fraction Num / Den.      *)
(***************************************************************************)
RECURSIVE DigitsNum(_, _)
DigitsNum(s, acc) ==
    IF s = <<>> THEN acc
    ELSE IF s[1] = "." THEN DigitsNum(Tail(s), acc)
    ELSE DigitsNum(Tail(s), 10 * acc + DigitVal(s[1]))

RECURSIVE Pow10(_)
Pow10(n) == IF n = 0 THEN 1 ELSE 10 * Pow10(n - 1)

DecNum(d) == DigitsNum(d, 0)

DecDen(d) ==
    IF \E k \in 1..Len(d) : d[k] = "."
    THEN Pow10(Len(d) - (CHOOSE k \in 1..Len(d) : d[k] = "."))
    ELSE 1

\* float(a) < float(b)
DecLess(a, b) == DecNum(a) * DecDen(b) < DecNum(b) * DecDen(a)

\* float(d) > 0
DecPositive(d) == DecNum(d) > 0

(***************************************************************************)
(* The loaded page, as the browser hands it to the three strategies:       *)
(*   eles  for each selector of strategy 1, in order, what page.eles gives *)
(*         (or that it raises): elements with their own text and the text  *)
(*         of their parent (None: no parent);                              *)
(*   js    what page.run_js gives for the script of strategy 2;            *)
(*   body  the text of the body element, read by strategy 3.               *)
(* A strategy gives [raises, value, kind]: it raised an exception of class  *)
(* kind, or it returned value.                                             *)
(***************************************************************************)
Returns(v) == [raises |-> FALSE, value |-> v, kind |-> "none"]

Raises(kind) == [raises |-> TRUE, value |-> None, kind |-> kind]

\* Python truthiness of a str-or-None value: "if price:"
Truthy(v) == v # None /\ v # <<>>

\* the first loop over the elements of one selector: the element's own text
RECURSIVE OwnTextMatch(_)
OwnTextFound(m, els) == IF m # None THEN m ELSE OwnTextMatch(Tail(els))

OwnTextMatch(els) ==
    IF els = <<>> THEN None ELSE OwnTextFound(SearchDecimal(els[1].text), els)

\* the second loop over the same elements: the text of the parent
RECURSIVE ParentTextMatch(_)
ParentTextFound(m, els) == IF m # None THEN m ELSE ParentTextMatch(Tail(els))

\* "if parent:" and the search in parent.text
ParentSearch(parent) ==
    IF parent # None THEN SearchYenDecimal(parent) ELSE None

ParentTextMatch(els) ==
    IF els = <<>> THEN None ELSE ParentTextFound(ParentSearch(els[1].parent), els)

\* the loop over price_selectors, from selector k on
RECURSIVE SelectorsFrom(_, _)
\* one selector: own is what the first loop found, par what the second found
SelectorFound(own, par, eles, k) ==
    IF own # None THEN Returns(own)
    ELSE IF par # None THEN Returns(par)
    ELSE SelectorsFrom(eles, k + 1)

SelectorsFrom(eles, k) ==
    IF k > Len(eles) THEN Returns(None)
    ELSE IF eles[k].raises THEN Raises("ElementError")
    ELSE SelectorFound(OwnTextMatch(eles[k].els), ParentTextMatch(eles[k].els),
                       eles, k)

_extract_price_strategy_1(pg) == SelectorsFrom(pg.eles, 1)

\* a mutant: the text the script gave is returned as it is, not its decimal
Strategy2RawText(pg) ==
    IF pg.js.raises THEN Raises("JavaScriptError")
    ELSE IF Truthy(pg.js.value) /\ SearchDecimal(pg.js.value) # None
         THEN Returns(pg.js.value)
         ELSE Returns(None)

_extract_price_strategy_2(pg) ==
    IF pg.js.raises THEN Raises("JavaScriptError")
    ELSE IF Truthy(pg.js.value)
         THEN Returns(SearchDecimal(pg.js.value))
         ELSE Returns(None)

(***************************************************************************)
(* Strategy 3: the patterns of price_patterns, in order, over the text of  *)
(* the body.  MatchAt(k, s, i) is the match of pattern k that starts at    *)
(* position i: [ok, from, to, end], group 1 being s[from..to].             *)
(***************************************************************************)
NoMatch == [ok |-> FALSE, from |-> 0, to |-> 0, end |-> 0]

Match(a, b, e) == [ok |-> TRUE, from |-> a, to |-> b, end |-> e]

DotWindow == 10

\* a match whose group is the decimal at position d and which ends with it
MatchDecimal(d, e) == Match(d, e, e)

\* (?:yen|YEN)\s*(\d+(?:\.\d+)?), the white space ending before position d
YenThenDecimal(s, i, d) ==
    IF IsYen(s[i]) /\ DigitAt(s, d)
    THEN MatchDecimal(d, DecimalEnd(s, d))
    ELSE NoMatch

MatchYen(s, i) == YenThenDecimal(s, i, SkipSpaces(s, i + 1))

\* (?:JIAGE|CUXIAOJIA|ZHEHOUJIA).{0,10}?(\d+(?:\.\d+)?), d the first digit
\* after the label
LabelWindowThenDecimal(s, i, d) ==
    IF /\ s[i] \in {"JIAGE", "CUXIAOJIA", "ZHEHOUJIA"}
       /\ d # 0
       /\ d - (i + 1) <= DotWindow
       /\ \A j \in (i + 1)..(d - 1) : s[j] # "NL"
    THEN MatchDecimal(d, DecimalEnd(s, d))
    ELSE NoMatch

MatchLabelWindow(s, i) == LabelWindowThenDecimal(s, i, FirstDigitFrom(s, i + 1))

\* (\d+(?:\.\d+)?)\s*(?:YUAN|KUAIQIAN), the decimal ending at e and the white
\* space before position u
DecimalThenSuffix(s, i, e, u) ==
    IF u <= Len(s) /\ s[u] \in {"YUAN", "KUAIQIAN"} THEN Match(i, e, u) ELSE NoMatch

DecimalThenSpaces(s, i, e) == DecimalThenSuffix(s, i, e, SkipSpaces(s, e + 1))

MatchSuffix(s, i) ==
    IF IsDigit(s[i]) THEN DecimalThenSpaces(s, i, DecimalEnd(s, i)) ELSE NoMatch

\* (?:JIAGE|JIAQIAN)\D*?(\d+(?:\.\d+)?), d the first digit after the label
LabelThenDecimal(s, i, d) ==
    IF s[i] \in {"JIAGE", "JIAQIAN"} /\ d # 0
    THEN MatchDecimal(d, DecimalEnd(s, d))
    ELSE NoMatch

MatchLabelAny(s, i) == LabelThenDecimal(s, i, FirstDigitFrom(s, i + 1))

NumPatterns == 4

MatchAt(k, s, i) ==
    CASE k = 1 -> MatchYen(s, i)
      [] k = 2 -> MatchLabelWindow(s, i)
      [] k = 3 -> MatchSuffix(s, i)
      [] k = 4 -> MatchLabelAny(s, i)

\* re.findall(pattern k, s) from position pos: group 1 of each match, in order
RECURSIVE FindAllFrom(_, _, _)
\* the match m is found: its group, then the matches after its end
FindAllAfter(k, s, m) ==
    <<SubSeq(s, m.from, m.to)>> \o FindAllFrom(k, s, m.end + 1)

\* a is the leftmost position from which the pattern matches (0: none)
FindAllAt(k, s, a) ==
    IF a = 0 THEN <<>> ELSE FindAllAfter(k, s, MatchAt(k, s, a))

FindAllFrom(k, s, pos) ==
    FindAllAt(k, s, Least({a \in pos..Len(s) : MatchAt(k, s, a).ok}))

FindAll(k, s) == FindAllFrom(k, s, 1)

MaxPrice == 100000

\* float(p) > 0 and float(p) < 100000
InRange(p) == DecPositive(p) /\ DecNum(p) < MaxPrice * DecDen(p)

\* [p for p in matches if ...]
RECURSIVE ValidPrices(_)
ValidPrices(ms) ==
    IF ms = <<>> THEN <<>>
    ELSE IF InRange(ms[1]) THEN <<ms[1]>> \o ValidPrices(Tail(ms))
    ELSE ValidPrices(Tail(ms))

\* a mutant: the first match is returned, the list is not sorted
FirstOfMatches(ps) == ps[1]

\* sorted(ps, key=float)[0]: the first of the entries of least value
SortedFirst(ps) ==
    ps[CHOOSE a \in 1..Len(ps) :
            /\ \A b \in 1..Len(ps) : ~DecLess(ps[b], ps[a])
            /\ \A b \in 1..(a - 1) : DecLess(ps[a], ps[b])]

\* the loop over price_patterns, from pattern k on
RECURSIVE PatternsFrom(_, _)
\* one pattern: valid are its matches that are in range
PatternFound(valid, s, k) ==
    IF valid # <<>> THEN SortedFirst(valid) ELSE PatternsFrom(s, k + 1)

PatternsFrom(s, k) ==
    IF k > NumPatterns THEN None
    ELSE PatternFound(ValidPrices(FindAll(k, s)), s, k)

_extract_price_strategy_3(pg) ==
    IF pg.body.raises THEN Raises("AttributeError")
    ELSE Returns(PatternsFrom(pg.body.text, 1))

(***************************************************************************)
(* extract_price: the strategies in the order of extraction_strategies,    *)
(* each call inside try/except Exception, the loop left at the first       *)
(* value that passes the check of lines 232-241.                           *)
(***************************************************************************)
\* a mutant: strategy 2 is tried before strategy 1
StrategiesSwapped == <<2, 1, 3>>

extraction_strategies == <<1, 2, 3>>

StrategyCall(n, pg) ==
    CASE n = 1 -> _extract_price_strategy_1(pg)
      [] n = 2 -> _extract_price_strategy_2(pg)
      [] n = 3 -> _extract_price_strategy_3(pg)

\* the classes of the exceptions the browser calls of the strategies raise,
\* all of them subclasses of Exception
ExceptionClasses ==
    {"ElementError", "JavaScriptError", "AttributeError", "ValueError",
     "ZeroDivisionError", "TypeError"}

\* a mutant: the handler of the loop catches ValueError only
CatchesValueErrorOnly(kind) == kind = "ValueError"

\* "except Exception as e" of the loop
CatchesException(kind) == kind \in ExceptionClasses

\* lines 232-241: the value is truthy and holds a decimal (float() of a
\* match of \d+(?:\.\d+)? never raises)
PassesValidation(price) == Truthy(price) /\ SearchDecimal(price) # None

\* the for loop from the k-th strategy on; price is the local of that name
RECURSIVE StrategyLoop(_, _, _, _)
\* the body of the loop: the k-th strategy gave out, inv are the strategies
\* called so far
StrategyStep(pg, k, price, inv, out) ==
    IF out.raises
    THEN IF CatchesException(out.kind)
         THEN StrategyLoop(pg, k + 1, price, inv)
         ELSE [price |-> price, invoked |-> inv, escaped |-> TRUE]
    ELSE IF PassesValidation(out.value)
         THEN [price |-> out.value, invoked |-> inv, escaped |-> FALSE]
         ELSE IF Truthy(out.value)
              THEN StrategyLoop(pg, k + 1, None, inv)
              ELSE StrategyLoop(pg, k + 1, out.value, inv)

StrategyLoop(pg, k, price, invoked) ==
    IF k > Len(extraction_strategies)
    THEN [price |-> price, invoked |-> invoked, escaped |-> FALSE]
    ELSE StrategyStep(pg, k, price, Append(invoked, extraction_strategies[k]),
                      StrategyCall(extraction_strategies[k], pg))

BrowserNotInit == <<"BROWSER_NOT_INITIALISED">>

\* a page without content
BlankPage ==
    [eles |-> <<[raises |-> FALSE, els |-> <<>>], [raises |-> FALSE, els |-> <<>>],
                [raises |-> FALSE, els |-> <<>>], [raises |-> FALSE, els |-> <<>>]>>,
     js |-> [raises |-> FALSE, value |-> None],
     body |-> [raises |-> FALSE, text |-> <<>>]]

NoExtraction ==
    [done |-> FALSE, debug |-> FALSE, raised |-> FALSE, price |-> None,
     success |-> FALSE, invoked |-> <<>>]

Outcome(dbg, raised, price, success, invoked) ==
    [done |-> TRUE, debug |-> dbg, raised |-> raised, price |-> price,
     success |-> success, invoked |-> invoked]

\* lines 290-294, r being what the loop ended with
ChainOutcome(dbg, r) ==
    IF r.escaped THEN Outcome(dbg, TRUE, None, FALSE, r.invoked)
    ELSE IF Truthy(r.price) THEN Outcome(dbg, FALSE, r.price, TRUE, r.invoked)
    ELSE Outcome(dbg, FALSE, NotFound, FALSE, r.invoked)

\* extract_price(save_debug_info) on the page pg of session sess ("none": self.page
\* is None); html_write_fails: writing last_page.html raises.  raised: an
\* exception left the method.
extract_price(sess, pg, save_debug_info, html_write_fails) ==
    IF sess = "none"
    THEN Outcome(save_debug_info, FALSE, BrowserNotInit, FALSE, <<>>)
    ELSE IF save_debug_info /\ html_write_fails
    THEN Outcome(save_debug_info, TRUE, None, FALSE, <<>>)
    ELSE ChainOutcome(save_debug_info, StrategyLoop(pg, 1, None, <<>>))

(***************************************************************************)
(* PriceHistoryManager: the store maps a product id to its record.         *)
(***************************************************************************)
EmptyHistory == [x \in {} |-> x]

\* a value of the history that is a record of a product; a history read from
\* a file holds whatever JSON values the file holds
IsMapping(info) == DOMAIN info = {"name", "price", "last_update"}

\* a JSON number where the record of a product is expected
NotARecord == [number |-> 5]

\* every value of the history is the record of a product
WellFormed(h) == \A id \in DOMAIN h : IsMapping(h[id])

\* a mutant: the assignment replaces the whole store
PutAlone(h, item_id, rec) == [x \in {item_id} |-> rec]

\* self.price_history[item_id] = rec
Put(h, item_id, rec) ==
    [x \in DOMAIN h \cup {item_id} |-> IF x = item_id THEN rec ELSE h[x]]

\* lines 471-475: the record of a product seen for the first time
NewRecord(product_name, current_price, timestamp) ==
    [name |-> product_name, price |-> current_price, last_update |-> timestamp]

\* a mutant: a first observation is reported as a change
NewItemResultChanged ==
    [is_new_item |-> TRUE, has_changed |-> TRUE, old_price |-> None]

\* lines 460-464 and 476: the result for a product seen for the first time
NewItemResult ==
    [is_new_item |-> TRUE, has_changed |-> FALSE, old_price |-> None]

\* a mutant: the prices are compared as numbers
PriceDiffersNumeric(old_price, current_price) ==
    DecLess(SearchDecimal(old_price), SearchDecimal(current_price))
        \/ DecLess(SearchDecimal(current_price), SearchDecimal(old_price))

\* a mutant: "is not" in place of "!=", true of two equal str objects
PriceDiffersIdentity(old_price, current_price) == TRUE

\* line 485: old_price != current_price, on the raw strings
PriceDiffers(old_price, current_price) == old_price # current_price

\* a mutant: the new price is not stored
UpdatedRecordKeepsPrice(rec, current_price, timestamp) ==
    [rec EXCEPT !.last_update = timestamp]

\* lines 487-488: the record after a change of price
UpdatedRecord(rec, current_price, timestamp) ==
    [rec EXCEPT !.price = current_price, !.last_update = timestamp]

NoResult == [is_new_item |-> FALSE, has_changed |-> FALSE, old_price |-> None]

\* check_price_change at time timestamp on the store h: the store after the
\* call and the result returned. A value of the store that is not a record
\* makes line 479 raise TypeError, with nothing changed.
check_price_change(h, item_id, product_name, current_price, timestamp) ==
    IF item_id \notin DOMAIN h
    THEN [history |-> Put(h, item_id,
                          NewRecord(product_name, current_price, timestamp)),
          result |-> NewItemResult, raises |-> FALSE]
    ELSE IF ~IsMapping(h[item_id])
    THEN [history |-> h, result |-> NoResult, raises |-> TRUE]
    ELSE LET renamed == [h[item_id] EXCEPT !.name = product_name]
             old_price == h[item_id].price
         IN  IF PriceDiffers(old_price, current_price)
             THEN [history |-> Put(h, item_id,
                        UpdatedRecord(renamed, current_price, timestamp)),
                   result |-> [is_new_item |-> FALSE, has_changed |-> TRUE,
                               old_price |-> old_price],
                   raises |-> FALSE]
             ELSE [history |-> Put(h, item_id, renamed),
                   result |-> [is_new_item |-> FALSE, has_changed |-> FALSE,
                               old_price |-> old_price],
                   raises |-> FALSE]

NoCall ==
    [made |-> FALSE, id |-> "", name |-> "", price |-> None, now |-> 0,
     again |-> FALSE, before |-> EmptyHistory, result |-> NoResult,
     raised |-> FALSE]

\* the call record of check_price_change(item_id, product_name, current_price)
\* made at time now on the store h; prev is the record of the call before it,
\* again tells that this call repeats the arguments of that one
CallOf(prev, h, item_id, product_name, current_price, now) ==
    [made |-> TRUE, id |-> item_id, name |-> product_name,
     price |-> current_price, now |-> now,
     again |-> (prev.made /\ prev.id = item_id /\ prev.name = product_name
                    /\ prev.price = current_price),
     before |-> h,
     result |-> check_price_change(h, item_id, product_name, current_price,
                                   now).result,
     raised |-> check_price_change(h, item_id, product_name, current_price,
                                   now).raises]

(***************************************************************************)
(* The history file, and what load_history and save_history do with it.    *)
(* json.dump and json.load of a dict of str to a dict of str give the      *)
(* same dict back. A file in the state "ok" holds valid JSON, which        *)
(* load_history returns whatever its shape is.                             *)
(***************************************************************************)
MissingFile == [state |-> "missing", content |-> EmptyHistory]

CorruptFile == [state |-> "corrupt", content |-> EmptyHistory]

StoredFile(h) == [state |-> "ok", content |-> h]

load_history(file) == IF file.state = "ok" THEN file.content ELSE EmptyHistory

save_history(h) == StoredFile(h)

(***************************************************************************)
(* get_page: up to max_retries attempts of page.get; attempts[k] tells     *)
(* whether the k-th attempt succeeds.                                      *)
(***************************************************************************)
max_retries == 2

RECURSIVE GetPageFrom(_, _)
GetPageFrom(attempts, k) ==
    IF k > max_retries THEN [ok |-> FALSE, tries |-> max_retries]
    ELSE IF attempts[k] THEN [ok |-> TRUE, tries |-> k]
    ELSE IF k < max_retries THEN GetPageFrom(attempts, k + 1)
    ELSE [ok |-> FALSE, tries |-> k]

get_page(attempts) == GetPageFrom(attempts, 1)

(***************************************************************************)
(* extract_item_id.  A url is [wellformed, netloc, id]: whether urlparse   *)
(* accepts it (it raises ValueError on a url such as "http://[x"), its     *)
(* host, and the value of its query parameter id ("": no such parameter,   *)
(* or a blank one, which parse_qs drops).                                  *)
(***************************************************************************)
NoId == ""

TaobaoHosts == {"item.taobao.com"}

extract_item_id(url) ==
    IF ~url.wellformed THEN Raises("ValueError")
    ELSE IF url.netloc \in TaobaoHosts /\ url.id # NoId THEN Returns(url.id)
    ELSE Returns(NoId)

(***************************************************************************)
(* The pages the strategies are run on.                                    *)
(***************************************************************************)
MaxTextLen == 3

\* every text over the alphabet A of at most n characters
TextsUpTo(A, n) == UNION {[1..k -> A] : k \in 0..n}

El(t, p) == [text |-> t, parent |-> p]

Sel(els) == [raises |-> FALSE, els |-> els]

SelRaises == [raises |-> TRUE, els |-> <<>>]

NoEls == Sel(<<>>)

\* what page.eles gives for the four selectors of strategy 1
ElesChoices ==
    { <<NoEls, NoEls, NoEls, NoEls>>,
      <<SelRaises, NoEls, NoEls, NoEls>>,
      <<Sel(<<El(<<"a", "b", "c">>, None)>>), NoEls, NoEls, NoEls>>,
      <<Sel(<<El(<<"yen", "1", "2", ".", "5">>, None)>>), SelRaises, NoEls, NoEls>>,
      <<Sel(<<El(<<"a">>, <<"yen", " ", "9", ".", "9">>)>>), NoEls, NoEls, NoEls>>,
      <<NoEls, Sel(<<El(<<"YEN", "0">>, None)>>), NoEls, NoEls>>,
      <<Sel(<<El(<<>>, <<"5">>), El(<<"2">>, None)>>), NoEls, NoEls, NoEls>>,
      <<Sel(<<El(<<"a">>, <<>>)>>), NoEls, Sel(<<El(<<"1", ".", "5", "0">>, None)>>),
        NoEls>> }

JsAlphabet == {"0", "1", ".", "a"}

\* what page.run_js gives: it raises, null, or a text
JsChoices ==
    {[raises |-> TRUE, value |-> None], [raises |-> FALSE, value |-> None]}
        \cup {[raises |-> FALSE, value |-> t] : t \in TextsUpTo(JsAlphabet, MaxTextLen)}

\* the text of the body element (or reading it raises)
BodyChoices ==
    {[raises |-> TRUE, text |-> <<>>]} \cup
    {[raises |-> FALSE, text |-> t] : t \in
        { <<>>,
          <<"a", "b">>,
          <<"yen", "9", "9", "9", "9", "9", "9", " ", "yen", "9", ".", "9">>,
          <<"yen", "0">>,
          <<"JIAGE", "a", "1", "0">>,
          <<"3", "YUAN", "yen", "1", "0", "0", "0", "0", "0">>,
          <<"yen", "5", " ", "yen", "3", "JIAGE", "1">> }}

Pages ==
    {[eles |-> e, js |-> j, body |-> b] :
        e \in ElesChoices, j \in JsChoices, b \in BodyChoices}

(***************************************************************************)
(* The specification of extract_price alone: a page is loaded in an open   *)
(* session, and extract_price is called on it once.                        *)
(***************************************************************************)
InitExtract ==
    /\ session = "open"
    /\ load = NoLoad
    /\ loaded \in Pages
    /\ extraction = NoExtraction
    /\ price_history = EmptyHistory
    /\ clock = 0
    /\ call = NoCall
    /\ history_file = MissingFile
    /\ pc = "idle"
    /\ products = <<>>
    /\ idx = 0
    /\ price_changes = <<>>
    /\ trace = <<>>
    /\ pauses = <<>>
    /\ suggestion = NotSuggested
    /\ report = NotReported
    /\ record_file = <<>>
    /\ log_file = <<>>
    /\ results = <<>>
    /\ product_file = <<>>
    /\ job = NoJob

ExtractPriceCall ==
    /\ ~extraction.done
    /\ \E dbg \in BOOLEAN, fails \in BOOLEAN :
            extraction' = extract_price(session, loaded, dbg, fails)
    /\ UNCHANGED <<extractorVars, cookieVars, reporterVars, session, loaded, load, historyVars, monitorVars>>

NextExtract == ExtractPriceCall

SpecExtract == InitExtract /\ [][NextExtract]_vars

\* what each strategy gives on the loaded page
StrategyOutputs == [n \in 1..3 |-> StrategyCall(n, loaded)]

\* the strategies whose output on the loaded page passes the validation
ValidatedStrategies ==
    {n \in 1..3 : ~StrategyOutputs[n].raises
                    /\ PassesValidation(StrategyOutputs[n].value)}

Returned == extraction.done /\ ~extraction.raised

\* C1: extract_price returns the output of the lowest-numbered strategy whose
\* output passes validation, and the strategies invoked are exactly those up
\* to that one, in the order 1, 2, 3.
C1_FirstValidatedWins ==
    (Returned /\ ValidatedStrategies # {}) =>
        LET m == CHOOSE a \in ValidatedStrategies :
                    \A b \in ValidatedStrategies : a <= b
        IN  /\ extraction.success
            /\ extraction.price = StrategyOutputs[m].value
            /\ extraction.invoked = [j \in 1..m |-> j]

\* strategy 1 yields nothing, strategy 2 yields a value, strategy 3 would
\* have yielded another one and was not run
C1_Witness ==
    /\ Returned
    /\ StrategyOutputs[1] = Returns(None)
    /\ 2 \in ValidatedStrategies
    /\ 3 \in ValidatedStrategies
    /\ StrategyOutputs[3].value # StrategyOutputs[2].value
    /\ extraction.price = StrategyOutputs[2].value
    /\ extraction.invoked = <<1, 2>>

\* the value a decimal literal at the head of s denotes is positive
LeadingDecimalPositive(s) == DecPositive(SubSeq(s, 1, DecimalEnd(s, 1)))

\* C2 as claimed: success only for a price with a leading decimal whose value
\* is strictly positive.
C2_SuccessOnlyPositive ==
    (Returned /\ extraction.success) =>
        /\ HasLeadingDecimal(extraction.price)
        /\ LeadingDecimalPositive(extraction.price)

\* the text the script of strategy 2 gave is the candidate that decides
JsDecides ==
    /\ Returned
    /\ StrategyOutputs[1] = Returns(None)
    /\ ~loaded.js.raises
    /\ loaded.js.value # None

\* C2 as amended: success only for a price that is, as a whole, a decimal
\* literal \d+(\.\d+)? (of any value, zero included); a candidate that is such
\* a literal is accepted as it is, a candidate without a digit is rejected and
\* the chain moves on to the next strategy.
C2_SuccessOnlyDecimal ==
    /\ (Returned /\ extraction.success) => IsDecimal(extraction.price)
    /\ (JsDecides /\ IsDecimal(loaded.js.value)) =>
            extraction.success /\ extraction.price = loaded.js.value
    /\ (JsDecides /\ SearchDecimal(loaded.js.value) = None) =>
            /\ extraction.invoked = <<1, 2, 3>>
            /\ extraction.success <=> 3 \in ValidatedStrategies

\* a candidate of value zero is accepted
C2_Witness ==
    /\ JsDecides
    /\ loaded.js.value = <<"0", ".", "0">>
    /\ extraction.success
    /\ extraction.price = <<"0", ".", "0">>
    /\ extraction.invoked = <<1, 2>>

\* strategy n was called by the last extract_price
Invoked(n) == \E j \in 1..Len(extraction.invoked) : extraction.invoked[j] = n

\* C3: extract_price returns (NotFound, false) exactly when no strategy yields
\* a validated price; an exception of a strategy is caught, the next strategy
\* is still run, and the only exception that leaves extract_price is the one
\* of writing the markup file.
C3_NotFoundIffNoneValidated ==
    extraction.done =>
        /\ extraction.raised => (extraction.debug /\ extraction.invoked = <<>>)
        /\ ~extraction.raised =>
            /\ (extraction.price = NotFound /\ ~extraction.success)
                    <=> ValidatedStrategies = {}
            /\ extraction.success <=> extraction.price # NotFound
            /\ \A n \in 1..2 :
                    (Invoked(n) /\ StrategyOutputs[n].raises) => Invoked(n + 1)

\* every strategy raised, and extract_price returned (NotFound, false)
C3_Witness ==
    /\ Returned
    /\ \A n \in 1..3 : StrategyOutputs[n].raises
    /\ extraction.invoked = <<1, 2, 3>>
    /\ extraction.price = NotFound
    /\ ~extraction.success

\* strategies 1 and 2 gave nothing and the text of the body was read: what
\* extract_price returned is what the full-text scan gave
ScanDecided ==
    /\ Returned
    /\ extraction.invoked = <<1, 2, 3>>
    /\ ~StrategyOutputs[3].raises

\* the matches of pattern k in the text of the body that are in range
Surviving(k) ==
    LET ms == FindAll(k, loaded.body.text)
    IN  {ms[j] : j \in {j \in 1..Len(ms) : InRange(ms[j])}}

AllSurviving == UNION {Surviving(k) : k \in 1..NumPatterns}

\* p is one of ps and none of ps has a smaller value
SmallestOf(p, ps) == p \in ps /\ \A q \in ps : ~DecLess(q, p)

\* C12 as stated: the scan returns the smallest surviving value over the
\* matches of all its patterns, None if no match survives.
C12_SmallestOverAllPatterns ==
    ScanDecided =>
        IF AllSurviving = {}
        THEN ~extraction.success
        ELSE extraction.success /\ SmallestOf(extraction.price, AllSurviving)

\* C12, amended: the patterns are tried in list order, and the scan returns
\* the smallest surviving match of the first pattern that has a surviving
\* match; None if no pattern has one.
C12_SmallestOfFirstPattern ==
    ScanDecided =>
        IF AllSurviving = {}
        THEN ~extraction.success /\ extraction.price = NotFound
        ELSE /\ extraction.success
             /\ \E k \in 1..NumPatterns :
                    /\ \A j \in 1..(k - 1) : Surviving(j) = {}
                    /\ SmallestOf(extraction.price, Surviving(k))

\* the scan decided on a text where the first pattern has two surviving
\* matches, the first of them the larger, and another pattern has a smaller one
C12_Witness ==
    /\ ScanDecided
    /\ extraction.success
    /\ Cardinality(Surviving(1)) = 2
    /\ \E q \in AllSurviving : DecLess(q, extraction.price)
    /\ \E q \in Surviving(1) : DecLess(extraction.price, q)

(***************************************************************************)
(* The specification of the price history alone: check_price_change is     *)
(* called again and again, with any id, name and price, as time passes.    *)
(***************************************************************************)
MaxClock == 2

Ids == {"1", "2"}

Names == {"n1", "n2"}

\* the prices check_price_change is called with: two spellings of one number,
\* another number, and a price with a trailing qualifier
CallPrices ==
    { <<"1", "0">>, <<"1", "0", ".", "0">>, <<"1", "2", ".", "0">>,
      <<"1", "0", "(", "q", ")">> }

\* the stores a run starts from (what load_history gave)
InitialHistories ==
    { EmptyHistory,
      [x \in {"1"} |-> NewRecord("n1", <<"1", "0", ".", "0">>, 0)] }

InitHistory ==
    /\ session = "none"
    /\ load = NoLoad
    /\ loaded = BlankPage
    /\ extraction = NoExtraction
    /\ price_history \in InitialHistories
    /\ clock = 0
    /\ call = NoCall
    /\ history_file = MissingFile
    /\ pc = "idle"
    /\ products = <<>>
    /\ idx = 0
    /\ price_changes = <<>>
    /\ trace = <<>>
    /\ pauses = <<>>
    /\ suggestion = NotSuggested
    /\ report = NotReported
    /\ record_file = <<>>
    /\ log_file = <<>>
    /\ results = <<>>
    /\ product_file = <<>>
    /\ job = NoJob

\* the clock read by datetime.now(): the second of the last reading, or a later one
Nows == {t \in {clock, clock + 1} : t <= MaxClock}

CheckPriceChangeCall ==
    /\ \E item_id \in Ids, product_name \in Names, current_price \in CallPrices,
          now \in Nows :
            /\ call' = CallOf(call, price_history, item_id, product_name,
                              current_price, now)
            /\ price_history' = check_price_change(price_history, item_id,
                                    product_name, current_price, now).history
            /\ clock' = now
    /\ UNCHANGED <<extractorVars, cookieVars, reporterVars, scraperVars, monitorVars>>

NextHistory == CheckPriceChangeCall

SpecHistory == InitHistory /\ [][NextHistory]_vars

\* the ids whose record the last call left as it was
Untouched == {x \in DOMAIN call.before : x # call.id}

OthersUnchanged ==
    /\ DOMAIN price_history = DOMAIN call.before \cup {call.id}
    /\ \A x \in Untouched : price_history[x] = call.before[x]

\* C4: a call for an id not in the history creates exactly one record
\* {name, price, last_update = now} under that id, and returns
\* is_new_item = true, has_changed = false, old_price = None.
C4_NewItemCreated ==
    (call.made /\ call.id \notin DOMAIN call.before) =>
        /\ call.result = [is_new_item |-> TRUE, has_changed |-> FALSE,
                          old_price |-> None]
        /\ price_history[call.id] = [name |-> call.name, price |-> call.price,
                                     last_update |-> call.now]
        /\ OthersUnchanged
        /\ Cardinality(DOMAIN price_history) = Cardinality(DOMAIN call.before) + 1

\* a second id is recorded at a later time than the first
C4_Witness ==
    /\ call.made
    /\ call.id \notin DOMAIN call.before
    /\ call.before # EmptyHistory
    /\ call.now > 0
    /\ price_history[call.id].last_update = call.now

\* C5: a call for a known id whose stored price string differs from the
\* supplied one returns has_changed = true, is_new_item = false and the stored
\* price as old_price; afterwards the record holds the supplied price and the
\* time of the call.
C5_ChangeRecorded ==
    (/\ call.made
     /\ call.id \in DOMAIN call.before
     /\ call.before[call.id].price # call.price) =>
        /\ call.result = [is_new_item |-> FALSE, has_changed |-> TRUE,
                          old_price |-> call.before[call.id].price]
        /\ price_history[call.id].price = call.price
        /\ price_history[call.id].last_update = call.now
        /\ OthersUnchanged

\* "10.0" is stored, "10" is supplied: a change, though the numbers are equal
C5_Witness ==
    /\ call.made
    /\ call.id \in DOMAIN call.before
    /\ call.before[call.id].price = <<"1", "0", ".", "0">>
    /\ call.price = <<"1", "0">>
    /\ call.result.has_changed
    /\ call.now > call.before[call.id].last_update

KnownSamePrice ==
    /\ call.made
    /\ call.id \in DOMAIN call.before
    /\ call.before[call.id].price = call.price

\* C6 as claimed: a call for a known id with the stored price string changes
\* no field of any record, and both flags are false.
C6_NoMutation ==
    KnownSamePrice =>
        /\ price_history = call.before
        /\ ~call.result.is_new_item
        /\ ~call.result.has_changed

\* C6 as amended: such a call changes nothing but the name of that record,
\* which becomes the supplied name; its price and last_update and every other
\* record are as before, and both flags are false.
C6_OnlyNameOverwritten ==
    KnownSamePrice =>
        /\ price_history = [call.before EXCEPT ![call.id].name = call.name]
        /\ ~call.result.is_new_item
        /\ ~call.result.has_changed

\* the stored price is supplied again under another name, at a later time
C6_Witness ==
    /\ KnownSamePrice
    /\ call.before[call.id].name # call.name
    /\ price_history[call.id].name = call.name
    /\ call.now > call.before[call.id].last_update
    /\ price_history[call.id].last_update = call.before[call.id].last_update

\* C7: a call that repeats the (id, name, price) of the call before it returns
\* has_changed = false and is_new_item = false and leaves the store as it was.
C7_Idempotent ==
    (call.made /\ call.again) =>
        /\ ~call.result.has_changed
        /\ ~call.result.is_new_item
        /\ price_history = call.before

\* a changed price is supplied a second time, one second later
C7_Witness ==
    /\ call.made
    /\ call.again
    /\ call.before[call.id].last_update > 0
    /\ call.now > call.before[call.id].last_update
    /\ call.price = <<"1", "0", "(", "q", ")">>

(***************************************************************************)
(* Python's float arithmetic (IEEE 754 binary64, round to nearest, ties to *)
(* even) on the values the reporter computes with.  A natural number is a  *)
(* sequence of limbs in base 2^15, least significant first, with no zero   *)
(* limb at its end; a finite float that is not negative is [m, e], of      *)
(* value m * 2^e, with m a natural number below 2^53 (or 2^53 itself).     *)
(***************************************************************************)
Base == 32768

LimbBits == 15

Mantissa == 53

RECURSIVE Pow2(_)
Pow2(n) == IF n = 0 THEN 1 ELSE 2 * Pow2(n - 1)

RECURSIVE BigFromInt(_)
BigFromInt(n) == IF n = 0 THEN <<>> ELSE <<n % Base>> \o BigFromInt(n \div Base)

RECURSIVE BigToInt(_)
BigToInt(a) == IF a = <<>> THEN 0 ELSE a[1] + Base * BigToInt(Tail(a))

RECURSIVE Trim(_)
Trim(a) ==
    IF a # <<>> /\ a[Len(a)] = 0 THEN Trim(SubSeq(a, 1, Len(a) - 1)) ELSE a

Limb(a) == IF a = <<>> THEN 0 ELSE a[1]

Rest(a) == IF a = <<>> THEN <<>> ELSE Tail(a)

\* a * 2^15
ShiftLimb(a) == IF a = <<>> THEN <<>> ELSE <<0>> \o a

\* a * c + carry, for a limb c
RECURSIVE BigMulSmall(_, _, _)
BigMulSmall(a, c, carry) ==
    IF a = <<>> THEN BigFromInt(carry)
    ELSE <<(a[1] * c + carry) % Base>>
            \o BigMulSmall(Tail(a), c, (a[1] * c + carry) \div Base)

RECURSIVE BigAdd(_, _, _)
BigAdd(a, b, carry) ==
    IF a = <<>> /\ b = <<>> THEN BigFromInt(carry)
    ELSE <<(Limb(a) + Limb(b) + carry) % Base>>
            \o BigAdd(Rest(a), Rest(b), (Limb(a) + Limb(b) + carry) \div Base)

RECURSIVE BigMul(_, _)
BigMul(a, b) ==
    IF b = <<>> THEN <<>>
    ELSE Trim(BigAdd(BigMulSmall(a, b[1], 0), ShiftLimb(BigMul(a, Tail(b))), 0))

\* quotient (not trimmed) and remainder of a by d, for 0 < d <= 2^15
RECURSIVE BigDivSmall(_, _)
DivStep(hi, limb, d) ==
    [q |-> <<(hi.r * Base + limb) \div d>> \o hi.q, r |-> (hi.r * Base + limb) % d]

BigDivSmall(a, d) ==
    IF a = <<>> THEN [q |-> <<>>, r |-> 0]
    ELSE DivStep(BigDivSmall(Tail(a), d), a[1], d)

RECURSIVE IntBitLen(_)
IntBitLen(n) == IF n = 0 THEN 0 ELSE 1 + IntBitLen(n \div 2)

BitLen(a) ==
    IF a = <<>> THEN 0 ELSE LimbBits * (Len(a) - 1) + IntBitLen(a[Len(a)])

RECURSIVE ShiftLeft(_, _)
ShiftLeft(a, k) ==
    IF k >= LimbBits THEN ShiftLeft(ShiftLimb(a), k - LimbBits)
    ELSE BigMulSmall(a, Pow2(k), 0)

\* a \div 2^k, and whether a bit that is set was shifted out (or sticky was)
RECURSIVE ShiftRight(_, _, _)
ShiftedBits(d, sticky) == [q |-> Trim(d.q), sticky |-> sticky \/ d.r # 0]

ShiftRight(a, k, sticky) ==
    IF k = 0 \/ a = <<>> THEN [q |-> a, sticky |-> sticky]
    ELSE IF k >= LimbBits THEN ShiftRight(Tail(a), k - LimbBits, sticky \/ a[1] # 0)
    ELSE ShiftedBits(BigDivSmall(a, Pow2(k)), sticky)

FloatZero == [m |-> <<>>, e |-> 0]

\* kept is the mantissa, round the bit after it, sticky the bits after that
RoundKept(d, sticky, e) ==
    [m |-> IF d.r = 1 /\ (sticky \/ Limb(d.q) % 2 = 1)
           THEN BigAdd(Trim(d.q), <<1>>, 0) ELSE Trim(d.q),
     e |-> e]

RoundShifted(sh, e) == RoundKept(BigDivSmall(sh.q, 2), sh.sticky, e)

\* the float nearest to (q + f) * 2^e, where 0 <= f < 1 and sticky tells f > 0;
\* q has more than 53 bits whenever sticky is set
Round53(q, e, sticky) ==
    IF BitLen(q) <= Mantissa THEN [m |-> q, e |-> e]
    ELSE RoundShifted(ShiftRight(q, BitLen(q) - Mantissa - 1, sticky),
                      e + BitLen(q) - Mantissa)

\* the bits a decimal is scaled by before it is divided by its denominator
ScaleBits == 70

FloatOfQuotient(d, e) == Round53(Trim(d.q), e, d.r # 0)

\* float(t) for a decimal t (digits with at most one "."), DecDen(t) <= 10^4
FloatOfDecimal(t) ==
    IF DecNum(t) = 0 THEN FloatZero
    ELSE FloatOfQuotient(
            BigDivSmall(ShiftLeft(BigFromInt(DecNum(t)), ScaleBits), DecDen(t)),
            0 - ScaleBits)

\* x * y
FloatMul(x, y) ==
    IF x.m = <<>> \/ y.m = <<>> THEN FloatZero
    ELSE Round53(BigMul(x.m, y.m), x.e + y.e, FALSE)

CeilShifted(sh) == BigToInt(sh.q) + (IF sh.sticky THEN 1 ELSE 0)

\* math.ceil(x)
math_ceil(x) ==
    IF x.e >= 0 THEN BigToInt(ShiftLeft(x.m, x.e))
    ELSE CeilShifted(ShiftRight(x.m, 0 - x.e, FALSE))

RECURSIVE BigLessFrom(_, _, _)
BigLessFrom(a, b, k) ==
    IF k = 0 THEN FALSE
    ELSE IF a[k] # b[k] THEN a[k] < b[k]
    ELSE BigLessFrom(a, b, k - 1)

BigLess(a, b) ==
    IF Len(a) # Len(b) THEN Len(a) < Len(b) ELSE BigLessFrom(a, b, Len(a))

\* x <= y
FloatLeq(x, y) ==
    IF x.e >= y.e THEN ~BigLess(y.m, ShiftLeft(x.m, x.e - y.e))
    ELSE ~BigLess(ShiftLeft(y.m, y.e - x.e), x.m)

RECURSIVE LStrip(_)
LStrip(t) == IF t # <<>> /\ IsSpace(t[1]) THEN LStrip(Tail(t)) ELSE t

RECURSIVE RStrip(_)
RStrip(t) ==
    IF t # <<>> /\ IsSpace(t[Len(t)]) THEN RStrip(SubSeq(t, 1, Len(t) - 1)) ELSE t

\* what float() accepts, once the white space around it is stripped, among
\* the texts of digits, "." and the other tokens of the model: digits with at
\* most one "." (Python's signs, exponents, underscores, inf and nan are not
\* in the alphabet of the model)
FloatLiteral(u) ==
    /\ \E k \in 1..Len(u) : IsDigit(u[k])
    /\ \A k \in 1..Len(u) : IsDigit(u[k]) \/ u[k] = "."
    /\ Cardinality({k \in 1..Len(u) : u[k] = "."}) <= 1

\* float(t) of a str t
float(t) ==
    IF FloatLiteral(RStrip(LStrip(t)))
    THEN Returns(FloatOfDecimal(RStrip(LStrip(t))))
    ELSE Raises("ValueError")

\* a - b - borrow, for a >= b + borrow (not trimmed)
RECURSIVE BigSub(_, _, _)
BigSub(a, b, borrow) ==
    IF a = <<>> THEN <<>>
    ELSE IF a[1] >= Limb(b) + borrow
    THEN <<a[1] - Limb(b) - borrow>> \o BigSub(Tail(a), Rest(b), 0)
    ELSE <<a[1] + Base - Limb(b) - borrow>> \o BigSub(Tail(a), Rest(b), 1)

\* long division, bit by bit: q and r are the quotient and the remainder of
\* the bits taken so far, the bits of limb from bit k down are taken next
RECURSIVE DivBits(_, _, _, _, _)
DivBit(q, r, limb, b, k) ==
    IF BigLess(r, b) THEN DivBits(BigMulSmall(q, 2, 0), r, limb, b, k - 1)
    ELSE DivBits(BigMulSmall(q, 2, 1), Trim(BigSub(r, b, 0)), limb, b, k - 1)

DivBits(q, r, limb, b, k) ==
    IF k < 0 THEN [q |-> q, r |-> r]
    ELSE DivBit(q, BigMulSmall(r, 2, (limb \div Pow2(k)) % 2), limb, b, k)

DivLimb(hi, limb, b) == DivBits(hi.q, hi.r, limb, b, LimbBits - 1)

\* quotient and remainder of a by b, for b # 0
RECURSIVE BigDivMod(_, _)
BigDivMod(a, b) ==
    IF a = <<>> THEN [q |-> <<>>, r |-> <<>>]
    ELSE DivLimb(BigDivMod(Tail(a), b), a[1], b)

Min(a, b) == IF a <= b THEN a ELSE b

AbsDiffAligned(a, b, e) ==
    IF BigLess(a, b) THEN Round53(Trim(BigSub(b, a, 0)), e, FALSE)
    ELSE Round53(Trim(BigSub(a, b, 0)), e, FALSE)

\* |x - y|
FloatAbsDiff(x, y) ==
    AbsDiffAligned(ShiftLeft(x.m, x.e - Min(x.e, y.e)),
                   ShiftLeft(y.m, y.e - Min(x.e, y.e)), Min(x.e, y.e))

FloatOfDivMod(d, e) == Round53(d.q, e, d.r # <<>>)

\* the bits x is shifted by so that its quotient by y has 55 bits or more
DivShift(x, y) == Mantissa + 2 + BitLen(y.m) - BitLen(x.m)

\* x / y, for y # 0
FloatDiv(x, y) ==
    IF x.m = <<>> THEN FloatZero
    ELSE FloatOfDivMod(BigDivMod(ShiftLeft(x.m, DivShift(x, y)), y.m),
                       x.e - y.e - DivShift(x, y))

\* round(x * 10), ties to even: the digits of f"{x:.1f}"
RoundTenths(x) ==
    IF x.e >= 0 THEN BigToInt(ShiftLeft(BigMulSmall(x.m, 10, 0), x.e))
    ELSE BigToInt(RoundShifted(ShiftRight(BigMulSmall(x.m, 10, 0), 0 - x.e - 1, FALSE),
                               0).m)

(***************************************************************************)
(* SimplePushReporter.calculate_suggested_price, under DEFAULT_CONFIG.     *)
(***************************************************************************)
low_price_threshold == <<"2", ".", "0">>

low_price_multiplier == <<"1", ".", "5">>

high_price_multiplier == <<"1", ".", "2">>

\* the text returned when the price cannot be calculated
CannotCalculate == <<"WUFAJISUAN">>

\* t.split("(")[0]
BeforeParen(t) ==
    IF \E k \in 1..Len(t) : t[k] = "("
    THEN SubSeq(t, 1, Least({k \in 1..Len(t) : t[k] = "("}) - 1)
    ELSE t

RECURSIVE IntToText(_)
IntToText(n) ==
    IF n < 10 THEN <<DigitChars[n + 1]>>
    ELSE IntToText(n \div 10) \o <<DigitChars[(n % 10) + 1]>>

\* f"{c / 10:.1f}" for a natural number c: c / 10 is the float nearest to the
\* decimal with the digits of c, which the format gives back
FormatTenth(c) == IntToText(c \div 10) \o <<".", DigitChars[(c % 10) + 1]>>

FloatTen == [m |-> BigFromInt(10), e |-> 0]

\* math.ceil(price_float * multiplier * 10) / 10, formatted
Suggested(price_float, multiplier) ==
    FormatTenth(math_ceil(FloatMul(FloatMul(price_float, FloatOfDecimal(multiplier)),
                                   FloatTen)))

\* lines 904-924, price_float the outcome of float(price_text)
SuggestedOfFloat(price_float) ==
    IF price_float.raises THEN price_float
    ELSE IF FloatLeq(price_float.value, FloatOfDecimal(low_price_threshold))
    THEN Returns(Suggested(price_float.value, low_price_multiplier))
    ELSE Returns(Suggested(price_float.value, high_price_multiplier))

\* the body of the try: a value that is not a str has no split
SuggestedBody(current_price) ==
    IF current_price = None THEN Raises("AttributeError")
    ELSE SuggestedOfFloat(float(BeforeParen(current_price)))

\* a mutant: the handler of calculate_suggested_price catches ValueError only
SuggestCatchesValueErrorOnly(kind) == kind = "ValueError"

\* "except Exception as e" of calculate_suggested_price
SuggestCatches(kind) == kind \in ExceptionClasses

SuggestedOutcome(out) ==
    IF ~out.raises THEN [raised |-> FALSE, output |-> out.value]
    ELSE IF SuggestCatches(out.kind) THEN [raised |-> FALSE, output |-> CannotCalculate]
    ELSE [raised |-> TRUE, output |-> None]

calculate_suggested_price(current_price) ==
    SuggestedOutcome(SuggestedBody(current_price))

(***************************************************************************)
(* The specification of a monitoring pass: PriceMonitor() is constructed   *)
(* (the history is loaded), then monitor_prices runs once.                 *)
(***************************************************************************)
MaxProducts == 2

Url(w, host, id) == [wellformed |-> w, netloc |-> host, id |-> id]

\* the lines of the product file: name and url
ProductChoices ==
    { [name |-> "n1", url |-> Url(TRUE, "item.taobao.com", "1")],
      [name |-> "n2", url |-> Url(TRUE, "example.com", "2")],
      [name |-> "n1", url |-> Url(TRUE, "item.taobao.com", NoId)],
      [name |-> "n2", url |-> Url(FALSE, "", NoId)] }

ProductLists == UNION {[1..k -> ProductChoices] : k \in 0..MaxProducts}

PageWithJs(t) == [BlankPage EXCEPT !.js = [raises |-> FALSE, value |-> t]]

\* the pages the product urls show during a pass
MonitorPages ==
    { BlankPage,
      PageWithJs(<<"1", "0">>),
      [BlankPage EXCEPT !.eles[1] = SelRaises,
                        !.body = [raises |-> FALSE,
                                  text |-> <<"3", "YUAN">>]] }

\* what is on disk when the monitor is constructed: no file, a file that is
\* not JSON, a price that differs from "10" in its spelling only, and a price
\* of zero next to one that is not a number
DiskChoices ==
    { MissingFile, CorruptFile,
      StoredFile([x \in {"1"} |-> NewRecord("n1", <<"1", "0", ".", "0">>, 0)]),
      StoredFile([x \in {"1", "2"} |->
            IF x = "1" THEN NewRecord("n1", <<"0">>, 0)
            ELSE NewRecord("n2", <<"1", "0", "(", "q", ")">>, 0)]),
      StoredFile([x \in {"1"} |-> NotARecord]) }

\* the outcomes of the attempts of one get_page call
AttemptResults == [1..max_retries -> BOOLEAN]

Init ==
    /\ session = "none"
    /\ load = NoLoad
    /\ loaded = BlankPage
    /\ extraction = NoExtraction
    /\ history_file \in DiskChoices
    /\ price_history = load_history(history_file)
    /\ clock = 0
    /\ call = NoCall
    /\ pc = "start"
    /\ products = <<>>
    /\ idx = 0
    /\ price_changes = <<>>
    /\ trace = <<>>
    /\ pauses = <<>>
    /\ suggestion = NotSuggested
    /\ report = NotReported
    /\ record_file = <<>>
    /\ log_file = <<>>
    /\ results = <<>>
    /\ product_file = <<>>
    /\ job = NoJob

\* init_browser succeeds
InitBrowserOk ==
    /\ pc = "start"
    /\ session' = "open"
    /\ price_changes' = <<>>
    /\ pc' = "read"
    /\ UNCHANGED <<extractorVars, cookieVars, reporterVars, loaded, extraction, load, historyVars, history_file, products, idx, trace, pauses>>

\* init_browser fails: monitor_prices returns, and the finally clause finds no page
InitBrowserFails ==
    /\ pc = "start"
    /\ session' = "none"
    /\ price_changes' = <<>>
    /\ pc' = "done"
    /\ UNCHANGED <<extractorVars, cookieVars, reporterVars, loaded, extraction, load, historyVars, history_file, products, idx, trace, pauses>>

\* get_latest_csv finds a product file and its lines are read
ReadProducts ==
    /\ pc = "read"
    /\ products' \in ProductLists
    /\ idx' = 1
    /\ pc' = "loop"
    /\ UNCHANGED <<extractorVars, cookieVars, reporterVars, scraperVars, historyVars, history_file, price_changes, trace, pauses>>

\* get_latest_csv raises FileNotFoundError: the outer handler logs it
ProductFileMissing ==
    /\ pc = "read"
    /\ pc' = "finally"
    /\ UNCHANGED <<extractorVars, cookieVars, reporterVars, scraperVars, historyVars, history_file, products, idx,
                   price_changes, trace, pauses>>

InLoop == pc = "loop" /\ idx <= Len(products)

Cur == products[idx]

CurId == extract_item_id(Cur.url)

HasId == InLoop /\ ~CurId.raises /\ CurId.value # NoId

\* the iteration ends in outcome and the loop goes on with the next product
\* a mutant: the pacing sleep follows every product but the last
PauseBetweenProducts(outcome, i, n) == IF i < n THEN "pacing" ELSE "none"

\* the sleep that follows the i-th of n products: the pacing sleep of lines
\* 841-844 at the end of the try, the sleep of line 849 in the handler of the
\* iteration, and none after a continue (lines 771-775, 788-790, 796-798)
PauseAfter(outcome, i, n) ==
    IF outcome = "recorded" THEN (IF i < n THEN "pacing" ELSE "none")
    ELSE IF outcome \in {"exception", "exception in rate"} THEN "backoff"
    ELSE "none"

Advance(outcome) ==
    /\ trace' = Append(trace, outcome)
    /\ pauses' = Append(pauses, PauseAfter(outcome, idx, Len(products)))
    /\ idx' = idx + 1
    /\ pc' = "loop"

\* urlparse raises on the url: the exception is raised outside the try of the
\* iteration and reaches the outer handler
AbortOnUrl ==
    /\ InLoop
    /\ CurId.raises
    /\ trace' = Append(trace, "aborted")
    /\ UNCHANGED pauses
    /\ pc' = "finally"
    /\ UNCHANGED <<extractorVars, cookieVars, reporterVars, scraperVars, historyVars, history_file, products, idx, price_changes>>

\* no product id in the url: continue
SkipNoId ==
    /\ InLoop
    /\ ~CurId.raises
    /\ CurId.value = NoId
    /\ Advance("skipped-no-id")
    /\ UNCHANGED <<extractorVars, cookieVars, reporterVars, scraperVars, historyVars, history_file, products, price_changes>>

\* get_page gives False: continue
LoadFailed ==
    /\ HasId
    /\ \E attempts \in AttemptResults : ~get_page(attempts).ok
    /\ Advance("load-failed")
    /\ UNCHANGED <<extractorVars, cookieVars, reporterVars, scraperVars, historyVars, history_file, products, price_changes>>

\* the page pg is loaded and extract_price is called on it
Extracts(pg, html_write_fails) ==
    /\ HasId
    /\ \E attempts \in AttemptResults : get_page(attempts).ok
    /\ loaded' = pg
    /\ extraction' = extract_price(session, pg, TRUE, html_write_fails)
    /\ UNCHANGED <<extractorVars, cookieVars, reporterVars, session, load, history_file, products>>

\* extract_price raises: the handler of the iteration catches it
ExtractRaised ==
    /\ \E pg \in MonitorPages : Extracts(pg, TRUE)
    /\ extraction'.raised
    /\ Advance("exception")
    /\ UNCHANGED <<historyVars, price_changes>>

\* extract_price gives no price: continue
ExtractFailed ==
    /\ \E pg \in MonitorPages : Extracts(pg, FALSE)
    /\ ~extraction'.success
    /\ Advance("extract-failed")
    /\ UNCHANGED <<historyVars, price_changes>>

\* check_price_change is called with the extracted price; the pass sleeps for
\* two seconds or more after each product (lines 841-844), so the call is
\* later than the one before it
Checks ==
    /\ \E pg \in MonitorPages : Extracts(pg, FALSE)
    /\ extraction'.success
    /\ clock' = clock + 1
    /\ call' = CallOf(call, price_history, CurId.value, Cur.name,
                      extraction'.price, clock + 1)
    /\ price_history' = check_price_change(price_history, CurId.value,
                            Cur.name, extraction'.price, clock + 1).history

\* a mutant: the elif of line 807 is an if of its own, reached by a new item too
AppendsOnNewItemToo(result) == result.is_new_item \/ result.has_changed

\* lines 805-807: the branch that logs and appends a ChangeEvent
AppendsChangeEvent(result) == ~result.is_new_item /\ result.has_changed

\* the text reported when the rate of the change cannot be computed
Unknown == <<"WEIZHI">>

ZeroPercent == <<"0", "%">>

FloatHundred == [m |-> BigFromInt(100), e |-> 0]

\* f"{change_rate:+.1f}%", neg the sign of the rate and rate its absolute value
SignedRate(neg, rate) ==
    <<IF neg THEN "-" ELSE "+">> \o FormatTenth(RoundTenths(rate)) \o <<"%">>

\* lines 812-817 on the floats of the two prices; the rate is 0.0, which is
\* falsy, exactly when the two are equal
RateOfValues(old_price_value, new_price_value) ==
    IF old_price_value.m = <<>> THEN Raises("ZeroDivisionError")
    ELSE IF FloatLeq(old_price_value, new_price_value)
                /\ FloatLeq(new_price_value, old_price_value)
    THEN Returns(ZeroPercent)
    ELSE Returns(SignedRate(~FloatLeq(old_price_value, new_price_value),
                FloatMul(FloatDiv(FloatAbsDiff(new_price_value, old_price_value),
                                  old_price_value),
                         FloatHundred)))

RateOfFloats(old_price_value, new_price_value) ==
    IF old_price_value.raises THEN old_price_value
    ELSE IF new_price_value.raises THEN new_price_value
    ELSE RateOfValues(old_price_value.value, new_price_value.value)

\* a mutant: the handler of the rate catches ValueError only
RateCatchesValueErrorOnly(kind) == kind = "ValueError"

\* "except Exception as e" of line 818
RateCatches(kind) == kind \in ExceptionClasses

RateOutcome(out) ==
    IF ~out.raises THEN [raised |-> FALSE, text |-> out.value]
    ELSE IF RateCatches(out.kind) THEN [raised |-> FALSE, text |-> Unknown]
    ELSE [raised |-> TRUE, text |-> None]

\* lines 809-820: change_rate_str, or the exception that leaves the try
change_rate_str(old_price, current_price) ==
    RateOutcome(RateOfFloats(float(old_price), float(current_price)))

ChangeEvent(name, id, old_price, new_price, change_rate) ==
    [name |-> name, id |-> id, old_price |-> old_price, new_price |-> new_price,
     change_rate |-> change_rate]

\* check_price_change raises: the handler of the iteration catches it
CheckRaised ==
    /\ Checks
    /\ call'.raised
    /\ Advance("exception")
    /\ UNCHANGED price_changes

\* a new item, or a price that did not change: nothing is appended
Recorded ==
    /\ Checks
    /\ ~call'.raised
    /\ ~AppendsChangeEvent(call'.result)
    /\ Advance("recorded")
    /\ UNCHANGED price_changes

\* lines 809-849: rate is what the computing of the rate gave. An exception
\* that leaves the try of line 809 reaches the handler of the iteration (line
\* 846) before anything is logged or appended; otherwise the change is logged
\* and the ChangeEvent is appended.
AppendsWithRate(name, id, old_price, new_price, rate) ==
    IF rate.raised
    THEN /\ UNCHANGED price_changes
         /\ Advance("exception in rate")
    ELSE /\ price_changes' = Append(price_changes,
                ChangeEvent(name, id, old_price, new_price, rate.text))
         /\ Advance("recorded")

\* a changed price: it is logged and a ChangeEvent is appended
RecordedChange ==
    /\ Checks
    /\ AppendsChangeEvent(call'.result)
    /\ AppendsWithRate(Cur.name, CurId.value, call'.result.old_price,
                       extraction'.price,
                       change_rate_str(call'.result.old_price, extraction'.price))

\* a changed price, and log_price_change raises: the handler of the iteration
\* catches it, no ChangeEvent is appended
ChangeLogFailed ==
    /\ Checks
    /\ AppendsChangeEvent(call'.result)
    /\ Advance("exception")
    /\ UNCHANGED price_changes

\* after the loop: save_history
SaveHistory ==
    /\ pc = "loop"
    /\ idx > Len(products)
    /\ history_file' = save_history(price_history)
    /\ trace' = Append(trace, "save")
    /\ UNCHANGED pauses
    /\ pc' = "report"
    /\ UNCHANGED <<extractorVars, cookieVars, reporterVars, scraperVars, historyVars, products, idx, price_changes>>

\* wx_push and spt are set: send_price_report
SendReport ==
    /\ pc = "report"
    /\ trace' = Append(trace, "push")
    /\ UNCHANGED pauses
    /\ pc' = "finally"
    /\ UNCHANGED <<extractorVars, cookieVars, reporterVars, scraperVars, historyVars, history_file, products, idx, price_changes>>

\* wx_push or spt is not set
NoReport ==
    /\ pc = "report"
    /\ pc' = "finally"
    /\ UNCHANGED <<extractorVars, cookieVars, reporterVars, scraperVars, historyVars, history_file, products, idx,
                   price_changes, trace, pauses>>

\* a mutant: monitor_prices without its finally clause
finally_skip(s, quit_fails) == s

\* lines 872-879: a page that is there is quit, and what page.quit raises is
\* dropped by the bare except
finally_quit(s, quit_fails) ==
    IF s = "open" THEN (IF quit_fails THEN "quit-failed" ELSE "quit") ELSE s

\* the finally clause: the browser session is quit
Teardown ==
    /\ pc = "finally"
    /\ \E quit_fails \in BOOLEAN : session' = finally_quit(session, quit_fails)
    /\ pc' = "done"
    /\ UNCHANGED <<extractorVars, cookieVars, reporterVars, loaded, extraction, load, historyVars, history_file, products, idx, price_changes, trace, pauses>>

\* KeyboardInterrupt while the pass reads the products, works on them, saves
\* or pushes: the handler of line 867 catches Exception only, so the
\* interrupt goes through the finally clause and then leaves monitor_prices
Interrupted ==
    /\ pc \in {"read", "loop", "report"}
    /\ trace' = Append(trace, "interrupted")
    /\ UNCHANGED pauses
    /\ pc' = "finally"
    /\ UNCHANGED <<extractorVars, cookieVars, reporterVars, scraperVars, historyVars, history_file, products, idx, price_changes>>

\* the process is killed (or the machine stops) while save_history is between
\* open(..., "w"), which truncates the file, and the end of json.dump: what is
\* on disk is a proper prefix of the text of the dump, which json.load rejects
TornWrite(h) == CorruptFile

\* the process is killed during save_history
CrashDuringSave ==
    /\ pc = "loop"
    /\ idx > Len(products)
    /\ history_file' = TornWrite(price_history)
    /\ trace' = Append(trace, "crash")
    /\ UNCHANGED pauses
    /\ pc' = "crashed"
    /\ UNCHANGED <<extractorVars, cookieVars, reporterVars, scraperVars, historyVars, products, idx, price_changes>>

\* the process is killed at any other point of the pass
Crash ==
    /\ pc \in {"read", "loop", "report", "finally"}
    /\ trace' = Append(trace, "crash")
    /\ UNCHANGED pauses
    /\ pc' = "crashed"
    /\ UNCHANGED <<extractorVars, cookieVars, reporterVars, scraperVars, historyVars, history_file, products, idx, price_changes>>

Next ==
    \/ InitBrowserOk
    \/ InitBrowserFails
    \/ ReadProducts
    \/ ProductFileMissing
    \/ AbortOnUrl
    \/ SkipNoId
    \/ LoadFailed
    \/ ExtractRaised
    \/ ExtractFailed
    \/ CheckRaised
    \/ Recorded
    \/ RecordedChange
    \/ ChangeLogFailed
    \/ SaveHistory
    \/ SendReport
    \/ NoReport
    \/ Teardown
    \/ Interrupted
    \/ CrashDuringSave
    \/ Crash

Spec == Init /\ [][Next]_vars

\* the last ChangeEvent of the list after a step
AppendedEvent == price_changes'[Len(price_changes')]

\* C8: a ChangeEvent is appended only for an id that is in the history before
\* the observation, with the price stored at that moment as old_price and the
\* observed price as new_price; a step that creates a record (a product seen
\* for the first time) appends no ChangeEvent.
C8_ChangeEventOnlyForKnownId ==
    [][/\ price_changes' # price_changes =>
            /\ Len(price_changes') = Len(price_changes) + 1
            /\ SubSeq(price_changes', 1, Len(price_changes)) = price_changes
            /\ AppendedEvent.id \in DOMAIN price_history
            /\ AppendedEvent.old_price = price_history[AppendedEvent.id].price
            /\ AppendedEvent.new_price = extraction'.price
            /\ AppendedEvent.new_price = price_history'[AppendedEvent.id].price
       /\ DOMAIN price_history' # DOMAIN price_history =>
            price_changes' = price_changes]_vars

\* the same id twice in the product list and not in the history file: the
\* first observation created the record, the second one gave the only
\* ChangeEvent of the pass
C8_Witness ==
    /\ pc = "loop"
    /\ Len(products) = 2
    /\ idx = 3
    /\ trace = <<"recorded", "recorded">>
    /\ products[1].url = products[2].url
    /\ products[1].url.id \notin DOMAIN load_history(history_file)
    /\ Len(price_changes) = 1
    /\ price_changes[1].id = products[1].url.id
    /\ price_changes[1].old_price # price_changes[1].new_price

\* the pass has read its product list and has ended
PassEnded == pc = "done" /\ idx >= 1

\* the positions of the trace that are the outcome of a product
OutcomePositions == {k \in 1..Len(trace) : trace[k] \notin {"save", "push"}}

SavePositions == {k \in 1..Len(trace) : trace[k] = "save"}

\* C9: whatever way a product fails, every product of the list is processed
\* (each ends in skipped-no-id, load-failed, extract-failed, exception or
\* recorded) and the history is persisted at the end of the pass.
C9_FailureIsolated ==
    PassEnded =>
        /\ Cardinality(OutcomePositions) = Len(products)
        /\ \A k \in OutcomePositions : trace[k] # "aborted"
        /\ SavePositions # {}

\* C10: in every pass save_history is invoked exactly once, after the last
\* product has been processed and before the reporter is invoked.
C10_SavedOnceAtEnd ==
    PassEnded =>
        /\ Cardinality(SavePositions) = 1
        /\ \A k \in SavePositions :
                /\ k = Len(products) + 1
                /\ \A j \in 1..Len(trace) : trace[j] = "push" => j > k

\* C11: a crash at any point of the pass, the final write included, never
\* corrupts the stored history: a file that json.load accepts (or no file) is
\* never replaced by one that it rejects, so the next load gives the content
\* of the last complete write.
C11_CrashNeverCorrupts ==
    [][history_file.state # "corrupt" =>
            /\ history_file'.state # "corrupt"
            /\ history_file' # history_file =>
                    load_history(history_file') = price_history]_vars

Abs(n) == IF n < 0 THEN -n ELSE n

\* 1000 * (new - old) / old for the decimals old and new, as a fraction: the
\* rate of the change in tenths of a percent
RateNum(old, new) == 1000 * (DecNum(new) * DecDen(old) - DecNum(old) * DecDen(new))

RateDen(old, new) == DecNum(old) * DecDen(new)

\* text is the signed number of r tenths, r being within half a tenth of the
\* fraction num / den
IsRoundedRate(text, r, num, den) ==
    /\ 2 * Abs(r * den - Abs(num)) <= den
    /\ text = <<IF num < 0 THEN "-" ELSE "+">> \o FormatTenth(r) \o <<"%">>

\* text is the rate of the change from old to new
IsRateOf(text, old, new) ==
    IF ~IsDecimal(old) \/ DecNum(old) = 0 THEN text = Unknown
    ELSE IF RateNum(old, new) = 0 THEN text = ZeroPercent
    ELSE \E up \in {0, 1} :
            IsRoundedRate(text, (Abs(RateNum(old, new)) \div RateDen(old, new)) + up,
                          RateNum(old, new), RateDen(old, new))

LastChange(changes) == changes[Len(changes)]

UnparseableKey == 999999

\* t.replace(".", "", 1)
RemoveFirstDot(t) ==
    IF \E k \in 1..Len(t) : t[k] = "."
    THEN SubSeq(t, 1, Least({k \in 1..Len(t) : t[k] = "."}) - 1)
            \o SubSeq(t, Least({k \in 1..Len(t) : t[k] = "."}) + 1, Len(t))
    ELSE t

\* str.isdigit() of an ASCII text
isdigit(t) == Len(t) > 0 /\ \A k \in 1..Len(t) : IsDigit(t[k])

\* the key function of lines 985-989 on the text before the qualifier
SortKeyOfText(text) ==
    IF isdigit(RemoveFirstDot(text)) THEN float(text)
    ELSE Returns([m |-> BigFromInt(UnparseableKey), e |-> 0])

\* x[1]["price"] of a value that is not a mapping raises TypeError
SortKey(info) ==
    IF IsMapping(info) THEN SortKeyOfText(BeforeParen(info.price))
    ELSE Raises("TypeError")

\* the items in the order of iteration of the dict, each with its key
KeyedItems(h, order) ==
    [k \in 1..Len(order) |-> [id |-> order[k], key |-> SortKey(h[order[k]])]]

\* the number of leading items of sorted that stay before an item of key key:
\* those up to the last one whose key is not greater (sorted() is stable)
RECURSIVE StaysBefore(_, _)
StaysBefore(sorted, key) ==
    IF sorted = <<>> THEN 0
    ELSE IF FloatLeq(sorted[Len(sorted)].key.value, key.value) THEN Len(sorted)
    ELSE StaysBefore(SubSeq(sorted, 1, Len(sorted) - 1), key)

InsertAt(sorted, n, item) ==
    SubSeq(sorted, 1, n) \o <<item>> \o SubSeq(sorted, n + 1, Len(sorted))

InsertSorted(sorted, item) == InsertAt(sorted, StaysBefore(sorted, item.key), item)

\* sorted(items, key=...) of line 983
RECURSIVE sorted_items(_)
sorted_items(items) ==
    IF items = <<>> THEN <<>>
    ELSE InsertSorted(sorted_items(SubSeq(items, 1, Len(items) - 1)),
                      items[Len(items)])

\* names of the model are shorter than the 28 characters of line 999
display_name(name) == name

\* lines 992-1015: the row of an item
Row(item_id, info) ==
    [id |-> item_id, name |-> display_name(info.name), price |-> info.price,
     suggested_price |-> calculate_suggested_price(info.price).output,
     last_update |-> info.last_update]

RowsOf(h, sorted) == [k \in 1..Len(sorted) |-> Row(sorted[k].id, h[sorted[k].id])]

\* lines 982-1036 on the keyed items: an exception of the key function leaves
\* sorted() before any row is written, and the handler writes the notice
TableOf(h, items) ==
    IF \E k \in 1..Len(items) : items[k].key.raises
    THEN [failed |-> TRUE, rows |-> <<>>]
    ELSE [failed |-> FALSE, rows |-> RowsOf(h, sorted_items(items))]

\* lines 943-967: the summary of the price changes
SummaryOf(changes) ==
    [k \in 1..Len(changes) |->
        [name |-> changes[k].name, old_price |-> changes[k].old_price,
         new_price |-> changes[k].new_price, change_rate |-> changes[k].change_rate,
         suggested_price |-> calculate_suggested_price(changes[k].new_price).output]]

WithSummary(table, summary) ==
    [failed |-> table.failed, rows |-> table.rows, summary |-> summary]

\* generate_price_report(history_manager, price_changes), order being the
\* order of iteration of the dict of the history
generate_price_report(h, order, changes) ==
    WithSummary(TableOf(h, KeyedItems(h, order)), SummaryOf(changes))

(***************************************************************************)
(* send_price_report.                                                      *)
(***************************************************************************)
\* what the push endpoint does with the request: requests.post raises, the
\* body of the response is not JSON, the JSON is not an object, or it is an
\* object with or without a success field
Responses ==
    { [kind |-> "network error", success |-> FALSE],
      [kind |-> "not json", success |-> FALSE],
      [kind |-> "not an object", success |-> FALSE],
      [kind |-> "no success field", success |-> FALSE],
      [kind |-> "object", success |-> FALSE],
      [kind |-> "object", success |-> TRUE] }

\* lines 1063-1066: result.get("success"), or the exception on the way
SuccessOf(response) ==
    CASE response.kind = "network error" -> Raises("RequestException")
      [] response.kind = "not json" -> Raises("ValueError")
      [] response.kind = "not an object" -> Raises("AttributeError")
      [] OTHER -> Returns(response.success)

\* a mutant: the handler of the request catches ValueError only
PushCatchesValueErrorOnly(kind) == kind = "ValueError"

\* "except Exception as e" of line 1073
PushCatches(kind) == kind \in ExceptionClasses \cup {"RequestException"}

\* lines 1062-1075
Posted(content, response, success) ==
    [made |-> TRUE, token |-> TRUE, rendered |-> TRUE, failed |-> content.failed,
     summary |-> content.summary, rows |-> content.rows, posted |-> TRUE,
     response |-> response,
     raised |-> success.raises /\ ~PushCatches(success.kind),
     result |-> ~success.raises /\ success.value]

\* lines 1046-1048
NoToken ==
    [made |-> TRUE, token |-> FALSE, rendered |-> FALSE, failed |-> FALSE,
     summary |-> <<>>, rows |-> <<>>, posted |-> FALSE, response |-> NoResponse,
     raised |-> FALSE, result |-> FALSE]

\* send_price_report(spt, history_manager, price_changes) of a reporter
\* constructed with the token self_spt; content is what line 1051 gets from
\* generate_price_report(history_manager, price_changes), which is not called
\* when there is no token
send_price_report(spt, self_spt, content, response) ==
    IF ~spt /\ ~self_spt THEN NoToken
    ELSE Posted(content, response, SuccessOf(response))

SuggestInputs ==
    { None, <<>>, <<"a", "b", "(", "q", ")">>, <<"a">>, <<"1", "2", "a">>,
      <<"1", ".", "0">>, <<"3", ".", "0">>, <<"2", ".", "0">>, <<"2", ".", "0", "1">>,
      <<"0", ".", "2">>, <<"0", ".", "2", "(", "q", ")">>, <<"1", "0", "(", "q", ")">>,
      <<"1", "0">>, <<"1", ".", "3", "3">>, <<"1", ".", "6">>, <<"0">>,
      <<"9", "9", ".", "9", "9">>, <<" ", "3">> }

\* the ids, the prices and the histories the reporter is given; a history
\* holds what its file held
ReportIds == {"1", "2", "3"}

ReportPrices ==
    { <<"3">>, <<"3", "(", "q", ")">>, <<"a">>,
      <<"1", "0", "0", "0", "0", "0", "0">> }

ReportValues == {NewRecord("n1", p, 0) : p \in ReportPrices} \cup {NotARecord}

ReportHistories == UNION {[ids -> ReportValues] : ids \in SUBSET ReportIds}

ReportChanges ==
    { <<>>,
      <<ChangeEvent("n1", "1", <<"1", "0">>, <<"3">>,
                    <<"-", "7", "0", ".", "0", "%">>)>> }

\* the orders in which the dict of a history can iterate
Orders(h) ==
    {order \in [1..Cardinality(DOMAIN h) -> DOMAIN h] :
        \A i, j \in DOMAIN order : order[i] = order[j] => i = j}

InitReport ==
    /\ session = "none"
    /\ load = NoLoad
    /\ loaded = BlankPage
    /\ extraction = NoExtraction
    /\ price_history \in ReportHistories
    /\ clock = 0
    /\ call = NoCall
    /\ history_file = MissingFile
    /\ pc = "idle"
    /\ products = <<>>
    /\ idx = 0
    /\ price_changes \in ReportChanges
    /\ trace = <<>>
    /\ pauses = <<>>
    /\ suggestion = NotSuggested
    /\ report = NotReported
    /\ record_file = <<>>
    /\ log_file = <<>>
    /\ results = <<>>
    /\ product_file = <<>>
    /\ job = NoJob

\* one call is made on a reporter
CallReturns ==
    /\ pc = "idle"
    /\ pc' = "returned"
    /\ UNCHANGED <<extractorVars, cookieVars, scraperVars, historyVars, history_file, products,
                   idx, price_changes, trace, pauses>>

CalculateSuggestedPriceCall ==
    /\ CallReturns
    /\ \E current_price \in SuggestInputs :
            suggestion' =
                [made |-> TRUE, input |-> current_price,
                 raised |-> calculate_suggested_price(current_price).raised,
                 output |-> calculate_suggested_price(current_price).output]
    /\ UNCHANGED report

\* what a call of generate_price_report alone leaves in report
Generated(content) ==
    [made |-> TRUE, token |-> FALSE, rendered |-> TRUE, failed |-> content.failed,
     summary |-> content.summary, rows |-> content.rows, posted |-> FALSE,
     response |-> NoResponse, raised |-> FALSE, result |-> FALSE]

GeneratePriceReportCall ==
    /\ CallReturns
    /\ \E order \in Orders(price_history) :
            report' = Generated(generate_price_report(price_history, order,
                                                      price_changes))
    /\ UNCHANGED suggestion

\* the calls of send_price_report in which the document would be content
SendsContent(content) ==
    \E spt \in BOOLEAN, self_spt \in BOOLEAN, response \in Responses :
        report' = send_price_report(spt, self_spt, content, response)

SendPriceReportCall ==
    /\ CallReturns
    /\ \E order \in Orders(price_history) :
            SendsContent(generate_price_report(price_history, order, price_changes))
    /\ UNCHANGED suggestion

NextReport ==
    \/ CalculateSuggestedPriceCall
    \/ GeneratePriceReportCall
    \/ SendPriceReportCall

SpecReport == InitReport /\ [][NextReport]_vars

\* ceil(a / b) in the integers
CeilDiv(a, b) == (a + b - 1) \div b

\* ceil(v * multiplier * 10) / 10 for the decimals v and multiplier, in exact
\* arithmetic, with one decimal place
ExactSuggested(v, multiplier) ==
    FormatTenth(CeilDiv(DecNum(v) * DecNum(multiplier) * 10,
                        DecDen(v) * DecDen(multiplier)))

\* v <= threshold for the decimals v and threshold
DecLeq(a, b) == ~DecLess(b, a)

\* C13: for a price that is a decimal of value v the result is
\* ceil(v * low_multiplier * 10) / 10 when v <= low_price_threshold and
\* ceil(v * high_multiplier * 10) / 10 otherwise, with one decimal place
\* ("1.0" gives "1.5", "3.0" gives "3.6", "2.0" gives "3.0").
C13_SuggestedIsCeiling ==
    (suggestion.made /\ IsDecimal(suggestion.input)) =>
        /\ ~suggestion.raised
        /\ suggestion.output =
                IF DecLeq(suggestion.input, low_price_threshold)
                THEN ExactSuggested(suggestion.input, low_price_multiplier)
                ELSE ExactSuggested(suggestion.input, high_price_multiplier)

\* a price of the form <decimal>(<qualifier>)
Qualified(p) ==
    /\ p # None
    /\ \E k \in 1..Len(p) : p[k] = "("
    /\ IsDecimal(BeforeParen(p))

\* a value that is not a str, or a text that does not start (after its
\* leading white space) with a digit
NoLeadingNumber(p) == p = None \/ ~HasLeadingDecimal(LStrip(p))

\* C14: calculate_suggested_price never raises; for "<decimal>(<qualifier>)"
\* the result is the result for "<decimal>" alone; for an input with no
\* leading number ("free(...)", "", a value that is not a str) the result is
\* the "cannot calculate" marker.
C14_NeverRaises ==
    suggestion.made =>
        /\ ~suggestion.raised
        /\ Qualified(suggestion.input) =>
                /\ suggestion.output # CannotCalculate
                /\ suggestion.output =
                        calculate_suggested_price(BeforeParen(suggestion.input)).output
        /\ NoLeadingNumber(suggestion.input) => suggestion.output = CannotCalculate

\* the call was made with a decimal followed by a qualifier, and a price came out
C14_Witness ==
    /\ suggestion.made
    /\ Qualified(suggestion.input)
    /\ Len(BeforeParen(suggestion.input)) < Len(suggestion.input)
    /\ IsDecimal(suggestion.output)

\* the history file is missing, is not decodable or is not valid JSON, or
\* holds valid JSON that is not a mapping from ids to records
MissingOrMalformed(file) == file.state # "ok" \/ ~WellFormed(file.content)

\* C18: when the history file is missing or malformed the store starts empty,
\* and in the pass that follows no call of check_price_change raises.
C18_MalformedStartsEmpty ==
    /\ (pc = "start" /\ MissingOrMalformed(history_file)) =>
            price_history = EmptyHistory
    /\ ~call.raised

\* the records of the ids other than id are the same in h and in g
SameButFor(h, g, id) ==
    /\ DOMAIN g \subseteq DOMAIN h \cup {id}
    /\ \A other \in DOMAIN h \ {id} : other \in DOMAIN g /\ g[other] = h[other]

\* C20: in every step of a run the set of ids of the history only grows; the
\* history changes only in a step that calls check_price_change, and such a
\* call leaves the records of all ids other than its own as they were. (The
\* history being a dict, it holds one record per id.)
C20_OnlyCheckMutates ==
    [][/\ DOMAIN price_history \subseteq DOMAIN price_history'
       /\ price_history' # price_history => (call' # call /\ call'.made)
       /\ call' # call =>
            /\ call'.before = price_history
            /\ SameButFor(price_history, price_history', call'.id)]_vars

\* a call changed the record of its id while the history held another id
C20_Witness ==
    /\ call.made
    /\ call.result.has_changed
    /\ \E other \in DOMAIN call.before : other # call.id
    /\ price_history[call.id] # call.before[call.id]

\* the price is a number, possibly followed by a qualifier
Parseable(price) == IsDecimal(BeforeParen(price))

\* a row listed before another one is out of order: its number is the greater
\* one, or it has no number and the other one has
OutOfOrder(before, after) ==
    IF Parseable(before.price)
    THEN Parseable(after.price)
            /\ DecLess(BeforeParen(after.price), BeforeParen(before.price))
    ELSE Parseable(after.price)

\* C16: the table of generate_price_report lists every item of the history
\* exactly once, ascending by the number before any "(" of its price, the
\* items whose price has no number after all the others, whatever the numbers
\* are.
C16_SortedUnparseableLast ==
    (report.rendered /\ WellFormed(price_history)) =>
        /\ ~report.failed
        /\ Len(report.rows) = Cardinality(DOMAIN price_history)
        /\ {report.rows[k].id : k \in 1..Len(report.rows)} = DOMAIN price_history
        /\ \A i, j \in 1..Len(report.rows) :
                i < j => ~OutOfOrder(report.rows[i], report.rows[j])

\* send_price_report was called: it returned for want of a token, or posted
SendCalled == report.made /\ (report.posted \/ ~report.rendered)

\* what the endpoint did is one of the failures of the request
RequestFailed ==
    report.response.kind \in {"network error", "not json", "not an object",
                              "no success field"}
        \/ ~report.response.success

\* C17 as stated: send_price_report never raises, returns true only when the
\* response carries a true success field, and returns false on a missing
\* token, a network error, an unparseable response, a response with success
\* false, or a failure while rendering the report.
C17_FalseOnRenderFailure ==
    SendCalled =>
        /\ ~report.raised
        /\ report.result => (report.posted /\ ~RequestFailed)
        /\ (~report.token \/ RequestFailed \/ report.failed) => ~report.result

\* C17: send_price_report never raises, returns true only when the response
\* carries a true success field, and returns false on a missing token, a
\* network error, an unparseable response and a response with success false;
\* a failure while rendering the report puts the error notice in the posted
\* document and leaves the result to the response.
C17_ResultFollowsResponse ==
    SendCalled =>
        /\ ~report.raised
        /\ report.result => (report.posted /\ ~RequestFailed)
        /\ (~report.token \/ RequestFailed) => ~report.result
        /\ (report.token /\ report.failed) =>
                /\ report.posted
                /\ report.result = ~RequestFailed

\* a document with the error notice was posted and accepted
C17_Witness ==
    /\ SendCalled
    /\ report.posted
    /\ report.failed
    /\ report.result

(***************************************************************************)
(* getCookie.py: the selection of the job in record.csv.                   *)
(* A row of the file is a record of cells, each a text, "" for an empty    *)
(* field. pandas.read_csv reads an empty field as NaN, a float that every  *)
(* comparison with a str finds different; to_csv writes NaN and "" as an   *)
(* empty field.                                                            *)
(***************************************************************************)
MaxRows == 2

NaN == "NaN"

\* pd.read_csv(csv_file_path, encoding="utf-8"): the cells of the data frame
read_cell(c) == IF c = "" THEN NaN ELSE c

read_row(r) == [f \in DOMAIN r |-> read_cell(r[f])]

read_csv(file) == [k \in 1..Len(file) |-> read_row(file[k])]

\* df.to_csv("record.csv", index=False, encoding="utf-8")
write_cell(v) == IF v = NaN THEN "" ELSE v

write_row(r) == [f \in DOMAIN r |-> write_cell(r[f])]

to_csv(df) == [k \in 1..Len(df) |-> write_row(df[k])]

\* Series.isna()
isna(v) == v = NaN

\* df["url"] != "": NaN is not equal to ""
UrlNotEmpty(v) == v # ""

\* line 157: the rows of the filter
cookie_empty_rows(df) ==
    {k \in 1..Len(df) :
        UrlNotEmpty(df[k].url) /\ (df[k].cookie = "" \/ isna(df[k].cookie))}

\* get_cookie_empty_row(df): the index of the row, 0 standing for None
get_cookie_empty_row(df) ==
    IF cookie_empty_rows(df) = {} THEN 0 ELSE Least(cookie_empty_rows(df))

\* line 55
KEY_COOKIES == {"openid", "access_token", "appid", "acctype"}

MaxCookies == 2

\* page.cookies() at line 128, after the login was detected or the wait of
\* 600 seconds ran out
CookieEntries ==
    { [name |-> n, value |-> v] : n \in {"access_token", "openid", "sid"},
                                  v \in {"", "v"} }

BrowserCookies == UNION {[1..n -> CookieEntries] : n \in 0..MaxCookies}

NamesOf(entries) == {entries[k].name : k \in 1..Len(entries)}

\* lines 131-146: the key cookies with a value, each name once
RECURSIVE cookies_dict(_, _)
cookies_dict(current, dict) ==
    IF current = <<>> THEN dict
    ELSE IF /\ Head(current).name \in KEY_COOKIES
            /\ Head(current).value # ""
            /\ Head(current).name \notin NamesOf(dict)
         THEN cookies_dict(Tail(current), Append(dict, Head(current)))
         ELSE cookies_dict(Tail(current), dict)

\* "; ".join([f"{name}={value}" for name, value in cookies_dict.items()])
RECURSIVE join_cookies(_)
join_cookies(dict) ==
    IF dict = <<>> THEN ""
    ELSE IF Len(dict) = 1 THEN dict[1].name \o "=" \o dict[1].value
    ELSE dict[1].name \o "=" \o dict[1].value \o "; " \o join_cookies(Tail(dict))

\* lines 160-180: the cookie string and state1 the try ends with
HarvestEnd(dict) ==
    IF dict # <<>>
    THEN [cookie |-> join_cookies(dict),
          state1 |-> IF "access_token" \in NamesOf(dict)
                     THEN "Successfully obtained cookie"
                     ELSE "Missing access_token"]
    ELSE [cookie |-> "", state1 |-> "No key cookies obtained"]

\* lines 182-186: an exception in the try
ErrorEnd == [cookie |-> "", state1 |-> "Error: e"]

\* what the harvest of lines 57-186 ends with: the cookie string and state1
HarvestOutcomes ==
    {HarvestEnd(cookies_dict(current, <<>>)) : current \in BrowserCookies}
        \cup {ErrorEnd}

\* lines 49-52 and 166-193: the row of the job after the run
HarvestedRow(row, outcome) ==
    [row EXCEPT !.startTime = "t", !.state1 = outcome.state1,
                !.cookie = outcome.cookie, !.endTime = "t"]

\* the data frame written at line 193
Harvested(df, row_index, outcome) ==
    [df EXCEPT ![row_index] = HarvestedRow(df[row_index], outcome)]

\* the rows a record file starts with
FileRows ==
    { [startTime |-> "", endTime |-> "", url |-> u, state1 |-> "", cookie |-> c] :
        u \in {"", "u"}, c \in {"", "c"} }

RecordFiles == UNION {[1..n -> FileRows] : n \in 0..MaxRows}

InitCookie ==
    /\ session = "none"
    /\ load = NoLoad
    /\ loaded = BlankPage
    /\ extraction = NoExtraction
    /\ price_history = EmptyHistory
    /\ clock = 0
    /\ call = NoCall
    /\ history_file = MissingFile
    /\ pc = "idle"
    /\ products = <<>>
    /\ idx = 0
    /\ price_changes = <<>>
    /\ trace = <<>>
    /\ pauses = <<>>
    /\ suggestion = NotSuggested
    /\ report = NotReported
    /\ record_file \in RecordFiles
    /\ log_file = <<>>
    /\ results = <<>>
    /\ product_file = <<>>
    /\ job = NoJob

JobOf(file, row_index, browser) ==
    [ran |-> TRUE, before |-> file, selected |-> row_index, browser |-> browser]

\* lines 28-32: no row is selected, and main returns
MainNoJob ==
    /\ get_cookie_empty_row(read_csv(record_file)) = 0
    /\ job' = JobOf(record_file, 0, FALSE)
    /\ UNCHANGED <<record_file, log_file, scraperVars, historyVars, monitorVars, reporterVars, extractorVars>>

\* lines 28-40: a row is selected and setup_webdriver raises: main ends with
\* the exception, nothing was written
MainBrowserFails ==
    /\ get_cookie_empty_row(read_csv(record_file)) # 0
    /\ job' = JobOf(record_file, get_cookie_empty_row(read_csv(record_file)), FALSE)
    /\ UNCHANGED <<record_file, log_file, scraperVars, historyVars, monitorVars, reporterVars, extractorVars>>

\* lines 28-202: a row is selected, the browser is opened, and the row is
\* written back with what the harvest ended with
MainHarvests ==
    /\ get_cookie_empty_row(read_csv(record_file)) # 0
    /\ \E outcome \in HarvestOutcomes :
            record_file' = to_csv(Harvested(read_csv(record_file),
                                get_cookie_empty_row(read_csv(record_file)),
                                outcome))
    /\ job' = JobOf(record_file, get_cookie_empty_row(read_csv(record_file)), TRUE)
    /\ UNCHANGED <<log_file, scraperVars, historyVars, monitorVars, reporterVars, extractorVars>>

\* lines 49-52 and 188-193: KeyboardInterrupt in the try, which the handler
\* of line 182 does not catch: the finally clause writes the row as it is
MainInterrupted ==
    /\ get_cookie_empty_row(read_csv(record_file)) # 0
    /\ record_file' = to_csv(Harvested(read_csv(record_file),
                            get_cookie_empty_row(read_csv(record_file)),
                            [cookie |-> read_csv(record_file)[
                                    get_cookie_empty_row(read_csv(record_file))].cookie,
                             state1 |-> "Getting cookie"]))
    /\ job' = JobOf(record_file, get_cookie_empty_row(read_csv(record_file)), TRUE)
    /\ UNCHANGED <<log_file, scraperVars, historyVars, monitorVars, reporterVars, extractorVars>>

NextCookie ==
    \/ MainNoJob
    \/ MainBrowserFails
    \/ MainHarvests
    \/ MainInterrupted

SpecCookie == InitCookie /\ [][NextCookie]_vars

\* the rows of a file whose cookie is empty and whose url is not
Eligible(file) == {k \in 1..Len(file) : file[k].url # "" /\ file[k].cookie = ""}

\* C19: the job selected is the first row whose cookie is empty and whose url
\* is not; a row with an empty url is never selected; when there is no such
\* row nothing is selected, no browser is opened and the record file is not
\* modified.
C19_FirstRowWithUrl ==
    job.ran =>
        IF Eligible(job.before) = {}
        THEN job.selected = 0 /\ ~job.browser /\ record_file = job.before
        ELSE job.selected = Least(Eligible(job.before))

(***************************************************************************)
(* The debug side effect of extract_price.                                 *)
(***************************************************************************)
\* C21: the debug flag never affects what extract_price returns: the call
\* does not raise, and its price and success are those of the call on the
\* same page with the flag off, whether or not the writing of the markup
\* file fails.
C21_DebugNeverAffects ==
    extraction.done =>
        /\ ~extraction.raised
        /\ extraction.price = extract_price(session, loaded, FALSE, FALSE).price
        /\ extraction.success = extract_price(session, loaded, FALSE, FALSE).success

(***************************************************************************)
(* The sleeps of a monitoring pass.                                        *)
(***************************************************************************)
\* C23 as stated: a delay follows every product but the last one of the
\* list, and none follows the last one, whatever state the product ends in.
C23_PacingBetweenProducts ==
    \A k \in 1..Len(pauses) :
        IF k < Len(products) THEN pauses[k] # "none" ELSE pauses[k] = "none"

\* C23: the randomized pacing delay follows a product that ends recorded,
\* unless it is the last of the list; no delay follows a product that ends
\* skipped, load-failed or extract-failed, last or not; a product that ends
\* in an exception is followed by the longer randomized delay of the handler,
\* last or not.
C23_PacingAfterRecorded ==
    \A k \in 1..Len(pauses) :
        /\ trace[k] = "recorded" =>
                pauses[k] = IF k < Len(products) THEN "pacing" ELSE "none"
        /\ trace[k] \in {"skipped-no-id", "load-failed", "extract-failed"} =>
                pauses[k] = "none"
        /\ trace[k] = "exception" => pauses[k] = "backoff"

\* a pass in which a product that is not the last ended without a price and
\* the last one ended in an exception
C23_Witness ==
    /\ Len(pauses) = Len(products)
    /\ Len(products) >= 2
    /\ trace[1] \in {"skipped-no-id", "load-failed", "extract-failed"}
    /\ trace[Len(products)] = "exception"
    /\ pauses[Len(products)] = "backoff"

(***************************************************************************)
(* get_page, attempt by attempt, as the product loop of monitor_prices     *)
(* calls it.  load.attempts holds the results of the page.get calls made   *)
(* so far and load.log the calls and sleeps of the call: "get" is          *)
(* page.get, "settle" the sleep that follows a load, "delay" the sleep of  *)
(* five seconds before the next attempt.                                   *)
(***************************************************************************)
MaxRetries == 3

\* a mutant: the sleep of five seconds follows every failed attempt
RetryDelayAlways(attempt, retries) == TRUE

\* line 190: another attempt follows the failed one
RetryDelayDue(attempt, retries) == attempt < retries - 1

\* the products of a pass whose urls all hold an id
LoadableProducts ==
    { p \in ProductLists :
        /\ Len(p) >= 1
        /\ \A k \in 1..Len(p) :
              /\ ~extract_item_id(p[k].url).raises
              /\ extract_item_id(p[k].url).value # NoId }

InitLoad ==
    /\ session \in {"none", "open"}
    /\ load = NoLoad
    /\ loaded = BlankPage
    /\ extraction = NoExtraction
    /\ history_file = MissingFile
    /\ price_history = load_history(history_file)
    /\ clock = 0
    /\ call = NoCall
    /\ pc = "loop"
    /\ products \in LoadableProducts
    /\ idx = 1
    /\ price_changes = <<>>
    /\ trace = <<>>
    /\ pauses = <<>>
    /\ suggestion = NotSuggested
    /\ report = NotReported
    /\ record_file = <<>>
    /\ log_file = <<>>
    /\ results = <<>>
    /\ product_file = <<>>
    /\ job = NoJob

LoadFrame ==
    UNCHANGED <<extractorVars, cookieVars, reporterVars, historyVars, loaded, extraction,
                history_file, products, price_changes>>

\* line 788-790: get_page returned False, the iteration ends with continue
ReturnsFalse(attempts, log) ==
    /\ load' = [load EXCEPT !.state = "returned", !.ok = FALSE,
                            !.attempts = attempts, !.log = log]
    /\ Advance("load-failed")

\* lines 177-178 and 787: the loop calls get_page; the browser is there, or
\* init_browser brings it up
GetPageCalled ==
    /\ HasId
    /\ load.state # "running"
    /\ session' = "open"
    /\ \E retries \in 0..MaxRetries :
            load' = [state |-> "running", retries |-> retries,
                     attempts |-> <<>>, log |-> <<>>, ok |-> FALSE]
    /\ UNCHANGED <<pc, idx, trace, pauses>>
    /\ LoadFrame

\* lines 177-178: there is no browser and init_browser returns False
GetPageNoBrowser ==
    /\ HasId
    /\ load.state # "running"
    /\ session = "none"
    /\ ReturnsFalse(<<>>, <<>>)
    /\ UNCHANGED session
    /\ LoadFrame

\* lines 181-187: page.get returns, the page settles, get_page returns True
AttemptSucceeds ==
    /\ load.state = "running"
    /\ Len(load.attempts) < load.retries
    /\ load' = [load EXCEPT !.state = "returned", !.ok = TRUE,
                            !.attempts = Append(@, TRUE),
                            !.log = @ \o <<"get", "settle">>]
    /\ pc' = "loaded"
    /\ UNCHANGED <<session, idx, trace, pauses>>
    /\ LoadFrame

\* lines 188-195: page.get raises
AttemptFails ==
    /\ load.state = "running"
    /\ Len(load.attempts) < load.retries
    /\ IF RetryDelayDue(Len(load.attempts), load.retries)
       THEN /\ load' = [load EXCEPT !.attempts = Append(@, FALSE),
                                    !.log = @ \o <<"get", "delay">>]
            /\ UNCHANGED <<pc, idx, trace, pauses>>
       ELSE ReturnsFalse(Append(load.attempts, FALSE), Append(load.log, "get"))
    /\ UNCHANGED session
    /\ LoadFrame

\* line 196: the range of the loop is used up
LoopEnds ==
    /\ load.state = "running"
    /\ Len(load.attempts) >= load.retries
    /\ ReturnsFalse(load.attempts, load.log)
    /\ UNCHANGED session
    /\ LoadFrame

\* what ends an iteration whose page was loaded (lines 792-849)
AfterLoadOutcomes == {"extract-failed", "exception", "recorded"}

\* lines 792-849: the rest of the iteration, of which only the outcome is
\* kept here
BodyEnds ==
    /\ pc = "loaded"
    /\ \E outcome \in AfterLoadOutcomes : Advance(outcome)
    /\ UNCHANGED <<session, load>>
    /\ LoadFrame

GetPageStep == AttemptSucceeds \/ AttemptFails \/ LoopEnds

NextLoad ==
    \/ GetPageCalled
    \/ GetPageNoBrowser
    \/ AttemptSucceeds
    \/ AttemptFails
    \/ LoopEnds
    \/ BodyEnds

\* a call under way takes its next step: page.get returns or raises
SpecLoad == InitLoad /\ [][NextLoad]_vars /\ WF_vars(GetPageStep)

RECURSIVE CountOf(_, _)
CountOf(x, seq) ==
    IF seq = <<>> THEN 0
    ELSE (IF Head(seq) = x THEN 1 ELSE 0) + CountOf(x, Tail(seq))

\* the results of the attempts made, as the argument of get_page
AsAttemptResults(attempts) ==
    [k \in 1..max_retries |-> k <= Len(attempts) /\ attempts[k]]

\* the "delay" at position i stands between two "get"
DelayBetweenAttempts(log, i) ==
    /\ i > 1 /\ log[i - 1] = "get"
    /\ IF i < Len(log) THEN log[i + 1] = "get"
       ELSE load.state = "running" /\ Len(load.attempts) < load.retries

GetPageBounded ==
    /\ CountOf("get", load.log) <= load.retries
    /\ CountOf("get", load.log) = Len(load.attempts)
    /\ \A i \in 1..Len(load.log) :
            load.log[i] = "delay" => DelayBetweenAttempts(load.log, i)
    /\ \A k \in 1..Len(load.attempts) :
            load.attempts[k] => /\ k = Len(load.attempts)
                                /\ load.state = "returned" /\ load.ok
    /\ load.state = "returned" =>
            /\ load.ok <=> /\ load.attempts # <<>>
                           /\ load.attempts[Len(load.attempts)]
            /\ load.ok => load.log[Len(load.log)] = "settle"
            /\ (~load.ok /\ session = "open") =>
                    /\ Len(load.attempts) = load.retries
                    /\ (load.log # <<>> => load.log[Len(load.log)] = "get")
            /\ (~load.ok) => /\ trace # <<>>
                             /\ trace[Len(trace)] = "load-failed"
                             /\ pc = "loop"
            /\ (session = "open" /\ load.retries = max_retries) =>
                    /\ load.ok = get_page(AsAttemptResults(load.attempts)).ok
                    /\ Len(load.attempts) = get_page(AsAttemptResults(load.attempts)).tries

\* C22: a get_page call makes at most max_retries attempts, returns True at
\* the first attempt that succeeds and makes no attempt after it, sleeps the
\* five seconds between two attempts only, returns False once every attempt
\* has failed, and always returns; a False result ends the iteration as
\* load-failed and the loop goes on.
C22_BoundedRetry ==
    /\ [](GetPageBounded)
    /\ (load.state = "running") ~> (load.state = "returned")

C22_Witness ==
    /\ load.state = "returned" /\ ~load.ok
    /\ load.retries = 3
    /\ load.log = <<"get", "delay", "get", "delay", "get">>
    /\ trace = <<"recorded", "load-failed">>
    /\ idx = 3

\* control leaves monitor_prices: the finally clause has run, or the return
\* of line 744 was taken
LeavesRun == pc # "done" /\ pc' = "done"

\* C24: whenever control leaves monitor_prices after the browser session
\* was opened (normal completion, missing product file, an exception out of
\* the product loop, KeyboardInterrupt), page.quit has been called on the
\* session, and the pass ends the same way when page.quit itself fails.
C24_TeardownGuaranteed ==
    /\ [](pc = "done" => session # "open")
    /\ [][LeavesRun => /\ session' # "open"
                       /\ (session = "open" => pc = "finally")]_vars

C24_Witness ==
    /\ pc = "done"
    /\ session = "quit-failed"
    /\ trace = <<"recorded", "interrupted">>

(***************************************************************************)
(* getItem.run_item_retrieval: the claiming script.  A run selects a job   *)
(* with get_first_row_data, opens the page, and runs the script of the job *)
(* at each full hour until the popup congratulates.                        *)
(***************************************************************************)
Obtained == "Successfully obtained props"

\* the rows log.csv may grow to in a run
MaxLog == 2

\* lines 50-54 of common.py: the rows of the filter
filtered_df(df) ==
    {k \in 1..Len(df) :
        /\ df[k].state2 # Obtained
        /\ ~isna(df[k].cookie)
        /\ df[k].cookie # ""}

\* the position in the file of the row get_first_row_data reads, 0 for none
FirstJobRow(df) == IF filtered_df(df) = {} THEN 0 ELSE Least(filtered_df(df))

NoJobData == [url |-> "None", jsCode |-> "None", cookie |-> "None"]

\* get_first_row_data(df): the url, the script and the cookie of the row,
\* and not its index
get_first_row_data(df) ==
    IF filtered_df(df) = {} THEN NoJobData
    ELSE [url |-> df[FirstJobRow(df)].url,
          jsCode |-> df[FirstJobRow(df)].jsCode,
          cookie |-> df[FirstJobRow(df)].cookie]

\* the index of the row the job was read from, which is what the row_index
\* of write_log_and_update_record is documented to be
SelectedIndex(df) == FirstJobRow(df)

\* line 162 of getItem.py: df.index[0], the first row of the data frame
PassedIndex(df) == 1

\* log_to_csv: the row appended to log.csv
LogRow(df, row_index, js_code, message, state) ==
    [url |-> df[row_index].url, jsCode |-> js_code, message |-> message,
     state |-> state, cookie |-> df[row_index].cookie]

\* update_record_csv(df, row_index, state2, csv_file_path)
update_record_csv(df, row_index, state2) ==
    to_csv([df EXCEPT ![row_index].state2 = state2])

\* the rows a record file holds when the claiming script starts
ItemRows ==
    { [url |-> u, jsCode |-> "j", state2 |-> s, cookie |-> c] :
        u \in {"u1", "u2"}, s \in {"", Obtained}, c \in {"", "c1", "c2"} }

ItemFiles == UNION {[1..n -> ItemRows] : n \in 0..MaxRows}

NoClaim == [state |-> "idle", before |-> <<>>, selected |-> 0]

InitItem ==
    /\ session = "none"
    /\ load = NoLoad
    /\ loaded = BlankPage
    /\ extraction = NoExtraction
    /\ price_history = EmptyHistory
    /\ clock = 0
    /\ call = NoCall
    /\ history_file = MissingFile
    /\ pc = "idle"
    /\ products = <<>>
    /\ idx = 0
    /\ price_changes = <<>>
    /\ trace = <<>>
    /\ pauses = <<>>
    /\ suggestion = NotSuggested
    /\ report = NotReported
    /\ record_file \in ItemFiles
    /\ log_file = <<>>
    /\ results = <<>>
    /\ product_file = <<>>
    /\ job = NoClaim

ItemFrame == UNCHANGED <<scraperVars, historyVars, monitorVars, reporterVars, extractorVars>>

Runnable == job.state # "waiting"

\* lines 133-136: there is no job, and the run returns
ItemNoJob ==
    /\ Runnable
    /\ get_first_row_data(read_csv(record_file)) = NoJobData
    /\ job' = [state |-> "no-job", before |-> record_file, selected |-> 0]
    /\ UNCHANGED <<record_file, log_file>>
    /\ ItemFrame

\* lines 132-155: a job is read, the page is opened with the cookie of the
\* job, and the run waits for the full hour
ItemStarts ==
    /\ Runnable
    /\ get_first_row_data(read_csv(record_file)) # NoJobData
    /\ job' = [state |-> "waiting", before |-> record_file,
               selected |-> FirstJobRow(read_csv(record_file))]
    /\ UNCHANGED <<record_file, log_file>>
    /\ ItemFrame

\* lines 84-108: the script is run at the full hour and the popup does not
\* congratulate: the result is logged and the loop goes on
ItemFailed ==
    /\ job.state = "waiting"
    /\ Len(log_file) < MaxLog
    /\ log_file' = Append(log_file,
            LogRow(read_csv(job.before), PassedIndex(read_csv(job.before)),
                   get_first_row_data(read_csv(job.before)).jsCode, "popup", "failed"))
    /\ UNCHANGED <<record_file, job>>
    /\ ItemFrame

\* lines 84-105: the popup congratulates: the result is logged, state2 is
\* written and the loop ends
ItemSucceeded ==
    /\ job.state = "waiting"
    /\ Len(log_file) < MaxLog
    /\ log_file' = Append(log_file,
            LogRow(read_csv(job.before), PassedIndex(read_csv(job.before)),
                   get_first_row_data(read_csv(job.before)).jsCode, "popup", "success"))
    /\ record_file' = update_record_csv(read_csv(job.before),
                            PassedIndex(read_csv(job.before)), Obtained)
    /\ job' = [job EXCEPT !.state = "claimed"]
    /\ ItemFrame

\* lines 168-171: Ctrl+C ends the run
ItemInterrupted ==
    /\ job.state = "waiting"
    /\ job' = [job EXCEPT !.state = "interrupted"]
    /\ UNCHANGED <<record_file, log_file>>
    /\ ItemFrame

NextItem ==
    \/ ItemNoJob
    \/ ItemStarts
    \/ ItemFailed
    \/ ItemSucceeded
    \/ ItemInterrupted

SpecItem == InitItem /\ [][NextItem]_vars

\* the rows of a file that hold a cookie and are not yet claimed
Claimable(file) ==
    {k \in 1..Len(file) : file[k].cookie # "" /\ file[k].state2 # Obtained}

\* C25: the job of a run is the first row with a cookie whose state2 is not
\* yet "Successfully obtained props"; when the claim succeeds, state2 is set
\* in that row and in no other, the url and the cookie logged are those of
\* that row, and the row is no longer selected by the next run.
C25_MarksSelectedRow ==
    /\ job.state \in {"waiting", "claimed", "interrupted"} =>
            /\ Claimable(job.before) # {}
            /\ job.selected = Least(Claimable(job.before))
    /\ job.state = "claimed" =>
            /\ record_file = [job.before EXCEPT ![job.selected].state2 = Obtained]
            /\ log_file[Len(log_file)].url = job.before[job.selected].url
            /\ log_file[Len(log_file)].cookie = job.before[job.selected].cookie
            /\ FirstJobRow(read_csv(record_file)) # job.selected

(***************************************************************************)
(* The product file: extract_product_info writes one line per product,     *)
(* title and url joined by a comma, and monitor_prices reads the lines     *)
(* back, splitting each at its first comma.  Texts are sequences of        *)
(* characters, "NL" being the newline.                                     *)
(***************************************************************************)
MaxTitleLen == 2

TitleChars == {"a", ","}

\* str.strip()
RECURSIVE lstrip(_)
lstrip(t) == IF t # <<>> /\ IsSpace(Head(t)) THEN lstrip(Tail(t)) ELSE t

RECURSIVE rstrip(_)
rstrip(t) ==
    IF t # <<>> /\ IsSpace(t[Len(t)]) THEN rstrip(SubSeq(t, 1, Len(t) - 1)) ELSE t

strip(t) == rstrip(lstrip(t))

\* the title a card shows, stripped, <<>> when no candidate has a text
Titles == UNION {[1..n -> TitleChars] : n \in 0..MaxTitleLen}

\* simplified_url: the short link of an id, or the link as found when it
\* has no id= in it
ItemUrls == { <<"h", "1">>, <<"h", ",", "2">> }

Cards == { [title |-> t, url |-> u] : t \in Titles, u \in ItemUrls }

CardLists == UNION {[1..n -> Cards] : n \in 0..MaxProducts}

\* lines 664-681: the title and url of the result of a card; a card without
\* a title is named after its id
ResultOf(card) ==
    IF card.title # <<>> THEN card
    ELSE [title |-> <<"SHANGPIN_", "id">>, url |-> card.url]

\* f"{title},{simplified_url}"
result_string(r) == r.title \o <<",">> \o r.url

\* lines 683-687: f.write(f"{result}\n") for each result
RECURSIVE write_lines(_)
write_lines(strings) ==
    IF strings = <<>> THEN <<>>
    ELSE Head(strings) \o <<"NL">> \o write_lines(Tail(strings))

\* for line in f: the lines of the text
RECURSIVE lines_of(_, _)
lines_of(text, line) ==
    IF text = <<>> THEN (IF line = <<>> THEN <<>> ELSE <<line>>)
    ELSE IF Head(text) = "NL" THEN <<line>> \o lines_of(Tail(text), <<>>)
    ELSE lines_of(Tail(text), Append(line, Head(text)))

\* line.split(",", 1)
RECURSIVE split_first_comma(_, _)
split_first_comma(line, before) ==
    IF line = <<>> THEN <<before>>
    ELSE IF Head(line) = "," THEN <<before, Tail(line)>>
    ELSE split_first_comma(Tail(line), Append(before, Head(line)))

\* lines 749-758: the products read from the text of the file
RECURSIVE products_of(_)
products_of(lines) ==
    IF lines = <<>> THEN <<>>
    ELSE IF strip(Head(lines)) = <<>> THEN products_of(Tail(lines))
    ELSE IF Len(split_first_comma(strip(Head(lines)), <<>>)) = 2
         THEN <<[name |-> split_first_comma(strip(Head(lines)), <<>>)[1],
                 url |-> split_first_comma(strip(Head(lines)), <<>>)[2]]>>
              \o products_of(Tail(lines))
         ELSE products_of(Tail(lines))

read_products(text) == products_of(lines_of(text, <<>>))

InitProducts ==
    /\ session = "none"
    /\ load = NoLoad
    /\ loaded = BlankPage
    /\ extraction = NoExtraction
    /\ price_history = EmptyHistory
    /\ clock = 0
    /\ call = NoCall
    /\ history_file = MissingFile
    /\ pc = "idle"
    /\ products = <<>>
    /\ idx = 0
    /\ price_changes = <<>>
    /\ trace = <<>>
    /\ pauses = <<>>
    /\ suggestion = NotSuggested
    /\ report = NotReported
    /\ record_file = <<>>
    /\ log_file = <<>>
    /\ results = <<>>
    /\ product_file = <<>>
    /\ job = NoJob

\* extract_product_info: the cards of the page become the lines of the file
ExtractProductInfo ==
    /\ pc = "idle"
    /\ \E cards \in CardLists :
            /\ results' = [k \in 1..Len(cards) |-> ResultOf(cards[k])]
            /\ product_file' = write_lines([k \in 1..Len(cards) |->
                                    result_string(ResultOf(cards[k]))])
    /\ pc' = "extracted"
    /\ UNCHANGED <<cookieVars, reporterVars, scraperVars, historyVars,
                   history_file, products, idx, price_changes, trace, pauses>>

\* lines 746-760 of monitor_prices: the product file is read
MonitorReadsFile ==
    /\ pc = "extracted"
    /\ products' = read_products(product_file)
    /\ idx' = 1
    /\ pc' = "loop"
    /\ UNCHANGED <<extractorVars, cookieVars, reporterVars, scraperVars, historyVars,
                   history_file, price_changes, trace, pauses>>

NextProducts == ExtractProductInfo \/ MonitorReadsFile

SpecProducts == InitProducts /\ [][NextProducts]_vars

\* C26: the products monitor_prices reads from the file are the (title, url)
\* records extract_product_info wrote, in order, with the same name and the
\* same url, whatever the title, a title with a comma included.
C26_ProductFileRoundTrip ==
    pc = "loop" =>
        products = [k \in 1..Len(results) |->
                        [name |-> results[k].title, url |-> results[k].url]]

\* the cookie strings a list of at most MaxCookies entries joins to
EntryLists == UNION {[1..n -> CookieEntries] : n \in 0..MaxCookies}

\* the entries of a stored cookie string, split at "; " and at "="
EntriesIn(cookie) == CHOOSE d \in EntryLists : join_cookies(d) = cookie

HasAccessToken(cookie) ==
    \E k \in 1..Len(EntriesIn(cookie)) :
        /\ EntriesIn(cookie)[k].name = "access_token"
        /\ EntriesIn(cookie)[k].value # ""

KeyNamesOnce(cookie) ==
    /\ NamesOf(EntriesIn(cookie)) \subseteq KEY_COOKIES
    /\ Cardinality(NamesOf(EntriesIn(cookie))) = Len(EntriesIn(cookie))

\* the state of the selected row is consistent with the cookie stored in it
RowConsistent(r) ==
    /\ r.state1 = "Successfully obtained cookie" <=> HasAccessToken(r.cookie)
    /\ r.state1 = "Missing access_token" =>
            r.cookie # "" /\ ~HasAccessToken(r.cookie)
    /\ r.state1 \in {"No key cookies obtained", "Error: e"} => r.cookie = ""
    /\ KeyNamesOnce(r.cookie)

\* C27: once a run of the harvesting script has selected a row, the record
\* file is written with the endTime of the row set however the run ends,
\* state1 is "Successfully obtained cookie" exactly when the stored cookie
\* holds an access_token with a value, "Missing access_token" only with a
\* cookie that is not empty and has no access_token, the cookie is empty
\* under "No key cookies obtained" and "Error: ...", and the stored cookie
\* holds key cookie names only, each once.
C27_EndTimeAndConsistentState ==
    (job.ran /\ job.selected # 0) =>
        /\ record_file[job.selected].endTime # ""
        /\ RowConsistent(record_file[job.selected])

\* the row the next run is to select: the first one with a url and no cookie
NextEligible(file) == IF Eligible(file) = {} THEN 0 ELSE Least(Eligible(file))

\* a run of the harvesting script that follows a run which selected row r
RunAfterJob(r) ==
    /\ job.ran /\ job.selected = r /\ r # 0
    /\ job'.ran /\ job'.before = record_file

\* C28: across runs of the harvesting script the record file is a job
\* queue: a row in which a run stored a cookie is not selected by any later
\* run, and the run after it selects the next row with a url and no
\* cookie; a row whose run ended with an error or without a key cookie has
\* its cookie empty and is selected again by the next run; a run modifies
\* no row but the one it selected.
C28_RecordFileIsQueue ==
    /\ [](job.ran =>
            /\ Len(record_file) = Len(job.before)
            /\ \A k \in 1..Len(record_file) :
                    k # job.selected => record_file[k] = job.before[k]
            /\ job.selected # 0 => job.before[job.selected].cookie = "")
    /\ [][\A r \in 1..Len(record_file) :
            RunAfterJob(r) =>
                IF record_file[r].cookie # ""
                THEN /\ job'.selected # r
                     /\ job'.selected = NextEligible(record_file)
                     /\ job'.selected # 0 => job'.selected > r
                ELSE job'.selected = r]_vars

====
